---- MODULE Spec2Model ----
(***************************************************************************)
(* A model of the STM32 UART bootloader engine of probe-flasher            *)
(* (backend/src/stm32_uart.rs): the identify and flash_hex calls, the      *)
(* requests they make on the serial port and the answers of the peer.      *)
(*                                                                         *)
(* One step of the model is one port operation of the code (a frame        *)
(* written and flushed together with the read of its answer, one read of   *)
(* a reply byte, one poll of a bulk read, one control-line sequence)       *)
(* followed by the code that runs up to the next port operation.  The      *)
(* peer is the environment: what a read returns is chosen by \E.           *)
(* Sleeps are not modelled: no property stated here measures time.         *)
(***************************************************************************)
EXTENDS Integers, Sequences, FiniteSets, TLC

VARIABLES
    pc,         \* position of the calling thread in identify / flash_hex
    call,       \* "none" | "identify" | "flash": the entry point called
    opts,       \* port_name, path and FlashOptions: [boot_mode, reset_after, verify]
    port,       \* "closed" | "open": the Box<dyn SerialPort> of the call
    sess,       \* the locals of the call (see Sess0)
    bld,        \* the locals of image_to_blocks while it runs (see Bld0)
    log,        \* what passed between the call and the outside, in order:
                \*   frames written, bytes read (from the ACK that ends the
                \*   handshake on), DTR/RTS levels written, logger lines
    lastIo,     \* how the most recent read or frame write on the port ended
    result,     \* what the call returned (see NoResult)
    peerSilent, \* the peer has stopped sending for good
    hist,       \* observation: the answers to the autobaud bytes so far
    trackHist,  \* whether hist is recorded in this run
    shell,      \* the GUI shell: AppState.is_flashing, the flash_firmware
                \*   invocations and the events emitted (see Shell0)
    prev,       \* observation: the identify call made before this one (see Prev0)
    calc        \* observation: one call of a codec function or of get_id,
                \*   its input and what it returned (see Calc0)

vars == <<pc, call, opts, port, sess, bld, log, lastIo, result, peerSilent,
          hist, trackHist, shell, prev, calc>>

----------------------------------------------------------------------------
(* Protocol constants *)

ACK == 121
NACK == 31
CMD_GET == 0
CMD_GET_ID == 2
CMD_GO == 33
CMD_WRITE_MEMORY == 49
CMD_ERASE == 67
CMD_EXTENDED_ERASE == 68
SYNC_BYTE == 127
GO_ADDRESS == 134217728
CHUNK == 256
MAX_ATTEMPTS == 5

(* Bounds of the model *)

\* the largest count byte N the peer sends in a GET reply
MaxN == 3
\* the largest count byte N the peer sends in a GET ID reply
MaxPidN == 2
\* length of the short trailing chunk of the 300-byte image (256 + 44)
TailLen == 44
\* addresses left out between the two blocks of the two-block image
Gap == 3
\* the number of flash_firmware invocations the GUI makes
MaxInvocations == 2
\* the number of addresses the images given to image_to_blocks alone are
\* drawn from
BlockWindow == 6
\* the number of lines of the texts given to parse_hex_to_image alone
MaxLines == 3
\* identify called twice: the most autobaud attempts of a call, and the
\* largest count byte of its GET reply
MaxSyncsTwice == 1
MaxNTwice == 1

----------------------------------------------------------------------------
(* Bytes *)

Bit(x, k) == (x \div (2 ^ k)) % 2

\* a ^ b on u8
Xor8(a, b) ==
    LET d(k) == (Bit(a, k) + Bit(b, k)) % 2
    IN  d(0) + 2 * d(1) + 4 * d(2) + 8 * d(3)
        + 16 * d(4) + 32 * d(5) + 64 * d(6) + 128 * d(7)

\* bytes.fold(0, |acc, b| acc ^ b): bit k of the fold is the parity of the
\* number of bytes with bit k set (a 256-byte fold is deeper than TLC's
\* recursion allows, so the fold is stated bit by bit).
xor_checksum(bytes) ==
    LET p(k) == Cardinality({i \in 1..Len(bytes) : Bit(bytes[i], k) = 1}) % 2
    IN  p(0) + 2 * p(1) + 4 * p(2) + 8 * p(3)
        + 16 * p(4) + 32 * p(5) + 64 * p(6) + 128 * p(7)

\* u32::to_be_bytes
to_be_bytes(a) ==
    << (a \div 16777216) % 256, (a \div 65536) % 256, (a \div 256) % 256, a % 256 >>

\* variant of len_minus_one: the length itself, cut to a byte
len_as_u8(len) == len % 256

\* (len as u8).wrapping_sub(1)
len_minus_one(len) == ((len % 256) + 255) % 256

Last(s) == s[Len(s)]

----------------------------------------------------------------------------
(* Errors and results *)

Ok == [kind |-> "Ok", byte |-> 0]
Err(k) == [kind |-> k, byte |-> 0]
Unexpected(b) == [kind |-> "UnexpectedResponse", byte |-> b]

\* Option<T>: <<>> is None, <<x>> is Some(x)
None == << >>
Some(x) == << x >>

\* no call has returned yet
NoResult == [ret |-> FALSE, ok |-> FALSE, err |-> Ok, version |-> None,
             cmds |-> << >>, pid |-> None, error |-> None]

\* Result<()> of flash_hex
FlashResult(e) == [ret |-> TRUE, ok |-> e = Ok, err |-> e, version |-> None,
                   cmds |-> << >>, pid |-> None,
                   error |-> IF e = Ok THEN None ELSE Some(e)]

----------------------------------------------------------------------------
(* What a port operation can do *)

\* a read returns a byte, finds nothing before its deadline, or fails
ByteIn(b) == [t |-> "byte", b |-> b]
TimedOut == [t |-> "timeout", b |-> 0]
ReadIo == [t |-> "rio", b |-> 0]
\* write_all fails (nothing is sent), or flush fails (the frame was sent)
WriteIo == [t |-> "wio", b |-> 0]
FlushIo == [t |-> "fio", b |-> 0]

\* reply bytes that are neither ACK nor NACK
OtherBytes == {0, 85}

ReadOutcomes(bytes) ==
    (IF peerSilent THEN {} ELSE {ByteIn(b) : b \in bytes}) \cup {TimedOut, ReadIo}

AckBytes == {ACK, NACK} \cup OtherBytes

\* the outcomes of a request: its frame written, then one answer byte read
ReqOutcomes == ReadOutcomes(AckBytes) \cup {WriteIo, FlushIo}

----------------------------------------------------------------------------
(* Frame codec *)

\* read_byte_with_timeout: Ok(byte) is reported as Ok, the byte is in lastIo
read_byte_with_timeout(o) ==
    CASE o.t = "byte" -> Ok
      [] o.t = "timeout" -> Err("Timeout")
      [] OTHER -> Err("Io")

\* variant of expect_ack: every byte that is not NACK counts as ACK
expect_ack_lenient(o) ==
    IF o.t = "byte"
    THEN IF o.b = NACK THEN Err("Nack") ELSE Ok
    ELSE read_byte_with_timeout(o)

expect_ack(o) ==
    IF o.t = "byte"
    THEN IF o.b = ACK THEN Ok
         ELSE IF o.b = NACK THEN Err("Nack")
         ELSE Unexpected(o.b)
    ELSE read_byte_with_timeout(o)

\* entries of log: a frame written to the port, a byte read from it, a level
\* written to DTR or RTS, a line given to the logger (message, numbers, error)
Tx(kind, bytes) == [op |-> "tx", kind |-> kind, v |-> bytes, e |-> Ok]
Rx(b) == [op |-> "rx", kind |-> "byte", v |-> <<b>>, e |-> Ok]
Line(name, level) ==
    [op |-> "line", kind |-> name, v |-> <<IF level THEN 1 ELSE 0>>, e |-> Ok]
LogLine(level, msg, args) == [op |-> level, kind |-> msg, v |-> args, e |-> Ok]
LogErr(level, msg, err) == [op |-> level, kind |-> msg, v |-> << >>, e |-> err]

CmdFrame(cmd) == <<cmd, Xor8(cmd, 255)>>
AddrFrame(address) ==
    LET a == to_be_bytes(address) IN a \o <<xor_checksum(a)>>
DataFrame(data) ==
    LET l == len_minus_one(Len(data))
    IN  <<l>> \o data \o <<xor_checksum(<<l>> \o data)>>

\* write_all(frame)?; flush()?; then the answer is read with expect_ack
Sent(lg, kind, frame, o) ==
    IF o.t = "wio" THEN lg ELSE Append(lg, Tx(kind, frame))

Answer(o) ==
    IF o.t \in {"wio", "fio"} THEN Err("Io") ELSE expect_ack(o)

\* the byte a read returned, if it returned one
Received(lg, o) == IF o.t = "byte" THEN Append(lg, Rx(o.b)) ELSE lg

\* send_cmd, send_address, the payload and erase frames: frame and answer
Request(lg, kind, frame, o) == Received(Sent(lg, kind, frame, o), o)

\* variant of failed: a NACK is let through
failed_but_nack(r) == r.kind \notin {"Ok", "Nack"}

\* variant of failed: a Timeout is let through
failed_but_timeout(r) == r.kind \notin {"Ok", "Timeout"}

\* the `?` on a Result: whether the error leaves the function
failed(r) == r # Ok

----------------------------------------------------------------------------
(* Inputs *)

FlashBase == 134217728

BootModes == {"None", "DtrLowRtsHigh", "DtrHighRtsHigh", "DtrHighRtsLow",
              "DtrHighOnly", "RtsLowDtrHigh", "RtsLowDtrLow", "RtsLowOnly",
              "RtsHighOnly"}

\* A firmware image is the BTreeMap<u32, u8> in its iteration order: a
\* sequence of entries with strictly ascending addresses.
Entry(a, b) == [addr |-> a, b |-> b]
Run(base, len, fill) == [i \in 1..len |-> Entry(base + i - 1, fill)]
Ramp(base, len) == [i \in 1..len |-> Entry(base + i - 1, (base + i - 1) % 251)]

\* 300 bytes of 0xAB at 0x08000000: one block, chunks of 256 and 44 bytes
Image300 == Run(FlashBase, CHUNK + TailLen, 171)
\* a block of 513 bytes (chunks of 256, 256 and 1), a gap of Gap addresses,
\* then a block of exactly 256 bytes
ImageTwo == Ramp(FlashBase, 2 * CHUNK + 1)
            \o Ramp(FlashBase + 2 * CHUNK + 1 + Gap, CHUNK)

Images == {Image300, ImageTwo}

\* the errors parse_hex_to_image returns
ParseErrors == {Err("HexFileNotFound"), Err("Io"), Err("Hex"), Err("HexFileEmpty")}

\* the command bytes and version bytes the peer puts into a GET reply, and
\* the bytes of a GET ID reply
CmdBytes == {CMD_GET, CMD_GO, CMD_WRITE_MEMORY, CMD_ERASE, CMD_EXTENDED_ERASE}
VersionBytes == {49, 34}
PidBytes == {4, 16}

----------------------------------------------------------------------------
(* State *)

\* the locals of identify / flash_hex and of the functions they call; the
\* locals of a function are reset when it returns Ok
Sess0 == [attempt |-> 1,            \* connect_bootloader_with_log: attempt
          last_err |-> Err("Timeout"), \* connect_bootloader_with_log: last_err
          n |-> 0,                  \* get_info / get_id: n
          version |-> 0,            \* get_info: version
          buf |-> << >>,            \* get_info: cmds[..read_total]; get_id: pid_bytes[..read_total]
          cmds |-> << >>,           \* identify / flash_hex: cmds
          blocks |-> << >>,         \* flash_hex: blocks
          total |-> 0,              \* flash_hex: image.len()
          bi |-> 1,                 \* flash_hex: index of the block being written
          offset |-> 0,             \* flash_hex: offset
          written |-> 0]            \* flash_hex: written

\* the locals of image_to_blocks
Bld0 == [image |-> << >>, idx |-> 1, blocks |-> << >>, cur_addr |-> None, cur |-> << >>]

\* A line of a HEX file: blank, or the bytes its hex digits spell after the
\* colon (count, offset high, offset low, type, payload, checksum).  A line
\* that is not such text spells no bytes.
Blank == [blank |-> TRUE, bytes |-> << >>]
HexLine(bytes) == [blank |-> FALSE, bytes |-> bytes]

RECURSIVE SumAll(_)
\* the sum of the bytes of a sequence, by halves
SumAll(s) ==
    IF Len(s) = 0 THEN 0
    ELSE IF Len(s) = 1 THEN s[1]
    ELSE LET h == Len(s) \div 2
         IN  SumAll(SubSeq(s, 1, h)) + SumAll(SubSeq(s, h + 1, Len(s)))

\* the line that spells a record: the checksum makes the bytes sum to 0
RecordLine(type, offset, payload) ==
    LET body == <<Len(payload), offset \div 256, offset % 256, type>> \o payload
    IN  HexLine(body \o <<(256 - (SumAll(body) % 256)) % 256>>)

\* ihex::Record
DataRecord(offset, value) ==
    [type |-> "Data", offset |-> offset, value |-> value, hi |-> 0]
ExtendedLinearAddress(hi) ==
    [type |-> "ExtendedLinearAddress", offset |-> 0, value |-> << >>, hi |-> hi]
EndOfFile == [type |-> "EndOfFile", offset |-> 0, value |-> << >>, hi |-> 0]
OtherRecord(name) == [type |-> name, offset |-> 0, value |-> << >>, hi |-> 0]

\* ihex::Record::from_record_string: the record a line spells, or an error
\* (too short, a count that is not the payload length, a checksum that does
\* not fit, a payload length the type does not allow, an unknown type)
from_record_string(line) ==
    LET b == line.bytes
        bad == [err |-> Err("Hex"), rec |-> EndOfFile]
        good(r) == [err |-> Ok, rec |-> r]
    IN  IF Len(b) < 5 THEN bad
        ELSE IF b[1] # Len(b) - 5 \/ SumAll(b) % 256 # 0 THEN bad
        ELSE LET payload == SubSeq(b, 5, Len(b) - 1)
                 n == Len(payload)
             IN  CASE b[4] = 0 -> good(DataRecord(b[2] * 256 + b[3], payload))
                   [] b[4] = 1 -> IF n = 0 THEN good(EndOfFile) ELSE bad
                   [] b[4] = 2 ->
                        IF n = 2 THEN good(OtherRecord("ExtendedSegmentAddress"))
                        ELSE bad
                   [] b[4] = 3 ->
                        IF n = 4 THEN good(OtherRecord("StartSegmentAddress"))
                        ELSE bad
                   [] b[4] = 4 ->
                        IF n = 2
                        THEN good(ExtendedLinearAddress(payload[1] * 256 + payload[2]))
                        ELSE bad
                   [] b[4] = 5 ->
                        IF n = 4 THEN good(OtherRecord("StartLinearAddress"))
                        ELSE bad
                   [] OTHER -> bad

\* variant of data_base: the upper address is left out
data_base_low(upper, offset) == offset

\* (upper << 16) | (offset as u32)
data_base(upper, offset) == upper * 65536 + offset

\* for (i, b) in value: image.insert(base + i, b) on the ordered map: the
\* entries below and above the record stay, the record's bytes replace what
\* was stored at its addresses
store(image, base, value) ==
    LET n == Len(value)
    IN  SelectSeq(image, LAMBDA e : e.addr < base)
        \o [i \in 1..n |-> Entry(base + (i - 1), value[i])]
        \o SelectSeq(image, LAMBDA e : e.addr > base + (n - 1))

\* the locals of parse_hex_to_image before the first line
Hex0 == [upper |-> 0, image |-> << >>, err |-> Ok, eof |-> FALSE]

\* one pass of `for line in text.lines()`
parse_line(st, line) ==
    IF line.blank THEN st
    ELSE LET r == from_record_string(line)
         IN  IF r.err # Ok THEN [st EXCEPT !.err = r.err]
             ELSE CASE r.rec.type = "Data" ->
                         [st EXCEPT !.image = store(@, data_base(st.upper, r.rec.offset),
                                                    r.rec.value)]
                    [] r.rec.type = "ExtendedLinearAddress" ->
                         [st EXCEPT !.upper = r.rec.hi]
                    [] r.rec.type = "EndOfFile" -> [st EXCEPT !.eof = TRUE]
                    [] OTHER -> st

RECURSIVE parse_from(_, _, _)
\* the loop from line k on: it ends at the first error and at EndOfFile
parse_from(st, lines, k) ==
    IF k > Len(lines) \/ st.err # Ok \/ st.eof THEN st
    ELSE parse_from(parse_line(st, lines[k]), lines, k + 1)

\* variant of parse_text: an image without bytes is returned as it is
parse_text_allows_empty(lines) ==
    LET st == parse_from(Hex0, lines, 1)
    IN  IF st.err # Ok THEN [err |-> st.err, image |-> << >>]
        ELSE [err |-> Ok, image |-> st.image]

\* parse_hex_to_image once the text is read
parse_text(lines) ==
    LET st == parse_from(Hex0, lines, 1)
    IN  IF st.err # Ok THEN [err |-> st.err, image |-> << >>]
        ELSE IF st.image = << >> THEN [err |-> Err("HexFileEmpty"), image |-> << >>]
        ELSE [err |-> Ok, image |-> st.image]

\* the HEX files of the model
HexFiles == {"missing", "unreadable", "malformed", "empty", "image300", "two"}

\* the data record for entries from..to of an image within the 64K page of
\* FlashBase
DataLine(image, from, to) ==
    RecordLine(0, image[from].addr - FlashBase,
               [i \in 1..(to - from + 1) |-> image[from + i - 1].b])

PageLine == RecordLine(4, 0, <<FlashBase \div 16777216, (FlashBase \div 65536) % 256>>)
EofLine == RecordLine(1, 0, << >>)
\* a data record whose checksum is off by one
BadLine == HexLine(<<1, 0, 0, 0, 18, 238>>)

\* std::fs::read_to_string(path) and text.lines()
read_to_string(path) ==
    CASE path = "missing" -> [err |-> Err("HexFileNotFound"), lines |-> << >>]
      [] path = "unreadable" -> [err |-> Err("Io"), lines |-> << >>]
      [] path = "malformed" ->
            [err |-> Ok,
             lines |-> <<PageLine, RecordLine(0, 0, <<18, 52>>), BadLine, EofLine>>]
      [] path = "empty" -> [err |-> Ok, lines |-> <<PageLine, Blank, EofLine>>]
      [] path = "image300" ->
            [err |-> Ok,
             lines |-> <<PageLine, DataLine(Image300, 1, 255),
                         DataLine(Image300, 256, Len(Image300)), EofLine>>]
      [] OTHER ->
            [err |-> Ok,
             lines |-> <<PageLine, DataLine(ImageTwo, 1, 255),
                         DataLine(ImageTwo, 256, 510),
                         DataLine(ImageTwo, 511, 2 * CHUNK + 1),
                         Blank,
                         DataLine(ImageTwo, 2 * CHUNK + 2, 2 * CHUNK + 256),
                         DataLine(ImageTwo, 2 * CHUNK + 257, Len(ImageTwo)),
                         EofLine>>]

\* the image each readable, well-formed file of the model describes
FileImage(path) ==
    CASE path = "image300" -> Image300
      [] path = "two" -> ImageTwo
      [] OTHER -> << >>

\* parse_hex_to_image on each file of the model
parsed_files ==
    [path \in HexFiles |->
        LET f == read_to_string(path)
        IN  IF f.err # Ok THEN [err |-> f.err, image |-> << >>]
            ELSE parse_text(f.lines)]

parse_hex_to_image(path) == parsed_files[path]

\* the GUI shell before any command was invoked: AppState::default()
Invocations == 1..MaxInvocations
Shell0 == [is_flashing |-> FALSE,
           inv |-> [i \in Invocations |-> [pc |-> "idle", ret |-> None]],
           events |-> << >>]

\* no identify call was made before this one
Prev0 == [calls |-> 0, answers |-> << >>, result |-> NoResult, wire |-> << >>]

\* no codec function was called, get_id has not returned
Calc0 == [fn |-> "none", in |-> << >>, out |-> << >>]

\* the ports of the model: one with a device behind it, one that does not
\* exist, one the process may not open
PortNames == {"present", "absent", "denied"}

Options(modes, paths, resets) ==
    [port_name : PortNames, boot_mode : modes,
     hex_path : paths, reset_after : resets, verify : {FALSE}]

InitWith(track, calls, modes, paths, resets) ==
    /\ call \in calls
    /\ opts \in IF call = "flash" THEN Options(modes, paths, resets)
                ELSE Options(modes, {"none"}, {FALSE})
    /\ pc = CASE call = "flash" -> "parse"
              [] call = "identify" -> "open"
              [] OTHER -> "idle"
    /\ port = "closed"
    /\ sess = Sess0
    /\ bld = Bld0
    /\ log = << >>
    /\ lastIo = TimedOut
    /\ result = NoResult
    /\ peerSilent = FALSE
    /\ hist = << >>
    /\ trackHist = track
    /\ shell = Shell0
    /\ prev = Prev0
    /\ calc = Calc0

Init ==
    InitWith(FALSE, {"identify", "flash"}, {"None", "DtrLowRtsHigh"},
             HexFiles, BOOLEAN)

----------------------------------------------------------------------------
(* Returning from identify / flash_hex *)

IdentifyErr(e) == [ret |-> TRUE, ok |-> FALSE, err |-> e, version |-> None,
                   cmds |-> << >>, pid |-> None, error |-> Some(e)]
IdentifyOk(ver, cmds, pid) ==
    [ret |-> TRUE, ok |-> TRUE, err |-> Ok, version |-> Some(ver),
     cmds |-> cmds, pid |-> pid, error |-> None]

\* an error leaving the call through `?`
Failure(e) == IF call = "identify" THEN IdentifyErr(e) ELSE FlashResult(e)

\* variant of Returns: the port of the call stays held after the return
Returns_holding_port(res) ==
    /\ pc' = "done"
    /\ port' = port
    /\ result' = res

\* the call returns; its port, if it opened one, is dropped
Returns(res) ==
    /\ pc' = "done"
    /\ port' = "closed"
    /\ result' = res

Goes(next) ==
    /\ pc' = next
    /\ UNCHANGED <<port, result>>

Info(lg, msg) == Append(lg, LogLine("info", msg, << >>))

----------------------------------------------------------------------------
(* flash_hex: parse_hex_to_image, image_to_blocks *)

\* variant of FlashParse: the error of parse_hex_to_image is not looked at
\* and the call goes on with what was parsed
FlashParse_unchecked ==
    /\ pc = "parse"
    /\ Goes("blocks")
    /\ bld' = [Bld0 EXCEPT !.image = parse_hex_to_image(opts.hex_path).image]
    /\ UNCHANGED <<call, opts, sess, log, lastIo, peerSilent, hist, trackHist, shell, prev, calc>>

FlashParse ==
    /\ pc = "parse"
    /\ LET r == parse_hex_to_image(opts.hex_path)
       IN  IF r.err # Ok
           THEN Returns(FlashResult(r.err)) /\ UNCHANGED bld
           ELSE Goes("blocks") /\ bld' = [Bld0 EXCEPT !.image = r.image]
    /\ UNCHANGED <<call, opts, sess, log, lastIo, peerSilent, hist, trackHist, shell, prev, calc>>

\* one iteration of `for (&addr, &b) in image.iter()`
blocks_step(b, addr, byte) ==
    IF b.cur_addr = None
    THEN [b EXCEPT !.cur_addr = Some(addr), !.cur = Append(@, byte)]
    ELSE LET a0 == b.cur_addr[1]
             expected == a0 + Len(b.cur)
         IN  IF addr = expected
             THEN [b EXCEPT !.cur = Append(@, byte)]
             ELSE [b EXCEPT !.blocks = Append(@, [base |-> a0, data |-> b.cur]),
                            !.cur_addr = Some(addr),
                            !.cur = <<byte>>]

\* variant of blocks_finish: the block being collected when the loop ends
\* is not pushed
blocks_finish_dropped(b) == b.blocks

\* the code after the loop
blocks_finish(b) ==
    IF b.cur_addr # None /\ b.cur # << >>
    THEN Append(b.blocks, [base |-> b.cur_addr[1], data |-> b.cur])
    ELSE b.blocks

BuildBlocks ==
    /\ pc = "blocks"
    /\ IF bld.idx <= Len(bld.image)
       THEN /\ bld' = [blocks_step(bld, bld.image[bld.idx].addr, bld.image[bld.idx].b)
                          EXCEPT !.idx = @ + 1]
            /\ UNCHANGED <<pc, sess, log>>
       ELSE /\ sess' = [sess EXCEPT !.blocks = blocks_finish(bld),
                                    !.total = Len(bld.image)]
            /\ log' = Append(log, LogLine("info", "loaded", <<Len(bld.image)>>))
            /\ bld' = Bld0
            /\ pc' = "open"
    /\ UNCHANGED <<call, opts, port, lastIo, result, peerSilent, hist, trackHist, shell, prev, calc>>

----------------------------------------------------------------------------
(* open_port, apply_boot_mode *)

\* serialport::new(port_name, ..).open() and the map_err on it; the OS
\* refuses a port that is held
open_port(port_name, held) ==
    CASE port_name = "absent" -> Err("PortNotFound")
      [] port_name = "denied" -> Err("Serial")
      [] held -> Err("PortNotFound")
      [] OTHER -> Ok

OpenPort ==
    /\ pc = "open"
    /\ LET r == open_port(opts.port_name, port = "open")
       IN  IF r = Ok
           THEN /\ port' = "open"
                /\ pc' = "boot"
                /\ UNCHANGED result
           ELSE Returns(Failure(r))
    /\ UNCHANGED <<call, opts, sess, bld, log, lastIo, peerSilent, hist, trackHist, shell, prev, calc>>

Dtr(level) == Line("dtr", level)
Rts(level) == Line("rts", level)

\* variant of BootSeq: DtrHighRtsLow drives RTS high
BootSeq_rts_high(mode) ==
    CASE mode = "DtrLowRtsHigh" ->
            <<Dtr(TRUE), Rts(FALSE), Rts(TRUE), Dtr(FALSE), Dtr(TRUE)>>
      [] mode = "DtrHighRtsHigh" -> <<Dtr(FALSE), Rts(TRUE), Dtr(TRUE), Dtr(FALSE)>>
      [] mode = "DtrHighRtsLow" -> <<Dtr(FALSE), Rts(TRUE), Dtr(TRUE), Dtr(FALSE)>>
      [] mode = "DtrHighOnly" -> <<Dtr(FALSE), Dtr(TRUE), Dtr(FALSE)>>
      [] mode = "RtsLowDtrHigh" -> <<Rts(TRUE), Dtr(TRUE), Rts(FALSE), Rts(TRUE)>>
      [] mode = "RtsLowDtrLow" -> <<Rts(TRUE), Dtr(FALSE), Rts(FALSE), Rts(TRUE)>>
      [] mode = "RtsLowOnly" -> <<Rts(TRUE), Rts(FALSE), Rts(TRUE)>>
      [] mode = "RtsHighOnly" -> <<Rts(FALSE), Rts(TRUE), Rts(FALSE)>>
      [] OTHER -> << >>

\* the control-line writes of each boot mode, in order
BootSeq(mode) ==
    CASE mode = "DtrLowRtsHigh" ->
            <<Dtr(TRUE), Rts(FALSE), Rts(TRUE), Dtr(FALSE), Dtr(TRUE)>>
      [] mode = "DtrHighRtsHigh" -> <<Dtr(FALSE), Rts(TRUE), Dtr(TRUE), Dtr(FALSE)>>
      [] mode = "DtrHighRtsLow" -> <<Dtr(FALSE), Rts(FALSE), Dtr(TRUE), Dtr(FALSE)>>
      [] mode = "DtrHighOnly" -> <<Dtr(FALSE), Dtr(TRUE), Dtr(FALSE)>>
      [] mode = "RtsLowDtrHigh" -> <<Rts(TRUE), Dtr(TRUE), Rts(FALSE), Rts(TRUE)>>
      [] mode = "RtsLowDtrLow" -> <<Rts(TRUE), Dtr(FALSE), Rts(FALSE), Rts(TRUE)>>
      [] mode = "RtsLowOnly" -> <<Rts(TRUE), Rts(FALSE), Rts(TRUE)>>
      [] mode = "RtsHighOnly" -> <<Rts(FALSE), Rts(TRUE), Rts(FALSE)>>
      [] OTHER -> << >>

\* a sequence of control-line writes, each of which may fail (`?`): the
\* first `done` writes succeed
LinesWritten(lg, seq, done) == lg \o SubSeq(seq, 1, done)

\* apply_boot_mode, then (flash_hex) the "connecting" line
ApplyBootMode ==
    /\ pc = "boot"
    /\ LET seq == BootSeq(opts.boot_mode)
       IN  \E done \in 0..Len(seq) :
             IF done < Len(seq)
             THEN /\ log' = LinesWritten(log, seq, done)
                  /\ Returns(Failure(Err("Serial")))
             ELSE /\ log' = IF call = "flash"
                            THEN Info(LinesWritten(log, seq, done), "connecting")
                            ELSE LinesWritten(log, seq, done)
                  /\ Goes("sync")
    /\ UNCHANGED <<call, opts, sess, bld, lastIo, peerSilent, hist, trackHist, shell, prev, calc>>

----------------------------------------------------------------------------
(* connect_bootloader_with_log *)

\* the frame of one attempt
sync_frame == <<SYNC_BYTE>>

\* the `attempt < 5` guard of the three retry arms
retry_guard(attempt) == attempt < 5

\* variant of more_attempts: a loop over 1..=6
more_attempts_six(attempt) == attempt <= MAX_ATTEMPTS

\* `for attempt in 1..=5`: whether another attempt follows this one
more_attempts(attempt) == attempt < MAX_ATTEMPTS

\* variant of sync_step: the answer to the first attempt is thrown away
sync_step_deaf(attempt, r) ==
    IF r = Ok /\ attempt > 1 THEN "ok"
    ELSE IF attempt < MAX_ATTEMPTS THEN "retry"
    ELSE "fail"

\* how an attempt that was answered r ends: the handshake returns Ok, the
\* loop goes round again, or the loop is over and last_err is returned
sync_step(attempt, r) ==
    IF r = Ok THEN "ok"
    ELSE IF more_attempts(attempt) THEN "retry"
    ELSE "fail"

\* variant of next_last_err: the Timeout and UnexpectedResponse arms have no
\* guard, so the fifth attempt also leaves last_err alone
next_last_err_unguarded(last_err, attempt, e) ==
    IF e.kind \in {"Timeout", "UnexpectedResponse"} THEN last_err ELSE e

\* last_err after an attempt that ended with error e: the Timeout and
\* UnexpectedResponse arms leave it alone, the last arm assigns it
next_last_err(last_err, attempt, e) ==
    IF e.kind \in {"Timeout", "UnexpectedResponse"} /\ retry_guard(attempt)
    THEN last_err
    ELSE e

\* one pass of the loop: 0x7F written and flushed, expect_ack; on success
\* (flash_hex) the "querying" line
AutobaudAttempt ==
    /\ pc = "sync"
    /\ \E o \in ReqOutcomes :
         LET r == Answer(o)
             le == next_last_err(sess.last_err, sess.attempt, r)
             sent == Sent(log, "sync", sync_frame, o)
             step == sync_step(sess.attempt, r)
         IN  /\ lastIo' = o
             /\ hist' = IF trackHist THEN Append(hist, o) ELSE hist
             /\ IF o.t \in {"wio", "fio"}
                THEN /\ Returns(Failure(Err("Io")))
                     /\ log' = sent
                     /\ UNCHANGED sess
                ELSE IF step = "ok"
                THEN /\ Goes("get_cmd")
                     /\ log' = IF call = "flash"
                               THEN Info(Received(sent, o), "querying")
                               ELSE Received(sent, o)
                     /\ sess' = [sess EXCEPT !.attempt = Sess0.attempt,
                                             !.last_err = Sess0.last_err]
                ELSE IF step = "retry"
                THEN /\ Goes("sync")
                     /\ log' = sent
                     /\ sess' = [sess EXCEPT !.attempt = @ + 1, !.last_err = le]
                ELSE /\ Returns(Failure(le))
                     /\ log' = sent
                     /\ sess' = [sess EXCEPT !.last_err = le]
    /\ UNCHANGED <<call, opts, bld, peerSilent, trackHist, shell, prev, calc>>

----------------------------------------------------------------------------
(* Bulk reads *)

Contains(seq, x) == \E i \in DOMAIN seq : seq[i] = x

\* a poll of a bulk read, port.read(&mut buf[read_total..]): Ok(k) with
\* k >= 1 bytes, Ok(0), Err(TimedOut), or another error
Data(s) == [t |-> "data", s |-> s]
BulkOutcomes(chunks) ==
    (IF peerSilent THEN {} ELSE {Data(c) : c \in chunks})
    \cup {[t |-> "zero", s |-> << >>], [t |-> "timeout", s |-> << >>],
          [t |-> "rio", s |-> << >>]}

HeardBulk(o) == IF o.t = "data" THEN ByteIn(Last(o.s)) ELSE [t |-> o.t, b |-> 0]

\* the bytes of a poll, one log entry each
ReceivedBulk(lg, s) == lg \o [i \in 1..Len(s) |-> Rx(s[i])]

\* The peer lists its commands in ascending order without repetition: the
\* next k bytes of a GET body after buf
CmdChunks(buf, k) ==
    {s \in [1..k -> CmdBytes] :
        /\ \A i \in 1..(k - 1) : s[i] < s[i + 1]
        /\ buf = << >> \/ s[1] > Last(buf)}

PidChunks(k) == [1..k -> PidBytes]

\* one pass of `while read_total < buf.len()` for a body of `want` bytes:
\* where the function goes, and its buffer
BulkPoll(o, want, again, next, broken) ==
    /\ lastIo' = HeardBulk(o)
    /\ CASE o.t = "data" ->
              /\ sess' = [sess EXCEPT !.buf = @ \o o.s]
              /\ log' = ReceivedBulk(log, o.s)
              /\ Goes(IF Len(sess.buf) + Len(o.s) < want THEN again ELSE next)
         [] o.t = "rio" ->
              /\ Returns(broken)
              /\ UNCHANGED <<sess, log>>
         [] OTHER -> Goes(again) /\ UNCHANGED <<sess, log>>

----------------------------------------------------------------------------
(* get_info *)

\* variant of erase_choice: the legacy erase is preferred
erase_choice_legacy(cmds) ==
    IF Contains(cmds, CMD_ERASE) THEN "legacy"
    ELSE IF Contains(cmds, CMD_EXTENDED_ERASE) THEN "extended"
    ELSE "none"

\* flash_hex after get_info: which mass erase it issues
erase_choice(cmds) ==
    IF Contains(cmds, CMD_EXTENDED_ERASE) THEN "extended"
    ELSE IF Contains(cmds, CMD_ERASE) THEN "legacy"
    ELSE "none"

GetCmd ==
    /\ pc = "get_cmd"
    /\ \E o \in ReqOutcomes :
         /\ log' = Request(log, "cmd", CmdFrame(CMD_GET), o)
         /\ lastIo' = o
         /\ IF failed(Answer(o)) THEN Returns(Failure(Answer(o))) ELSE Goes("get_n")
    /\ UNCHANGED <<call, opts, sess, bld, peerSilent, hist, trackHist, shell, prev, calc>>

GetN ==
    /\ pc = "get_n"
    /\ \E o \in ReadOutcomes(0..MaxN) :
         /\ lastIo' = o
         /\ log' = Received(log, o)
         /\ IF failed(read_byte_with_timeout(o))
            THEN Returns(Failure(read_byte_with_timeout(o))) /\ UNCHANGED sess
            ELSE Goes("get_ver") /\ sess' = [sess EXCEPT !.n = o.b]
    /\ UNCHANGED <<call, opts, bld, peerSilent, hist, trackHist, shell, prev, calc>>

GetVersion ==
    /\ pc = "get_ver"
    /\ \E o \in ReadOutcomes(VersionBytes) :
         /\ lastIo' = o
         /\ log' = Received(log, o)
         /\ IF failed(read_byte_with_timeout(o))
            THEN Returns(Failure(read_byte_with_timeout(o))) /\ UNCHANGED sess
            ELSE /\ Goes(IF 0 < sess.n THEN "get_body" ELSE "get_ack")
                 /\ sess' = [sess EXCEPT !.version = o.b, !.buf = << >>]
    /\ UNCHANGED <<call, opts, bld, peerSilent, hist, trackHist, shell, prev, calc>>

\* one pass of `while read_total < cmds.len()`
GetBody ==
    /\ pc = "get_body"
    /\ \E k \in 1..(sess.n - Len(sess.buf)) :
       \E o \in BulkOutcomes(CmdChunks(sess.buf, k)) :
         BulkPoll(o, sess.n, "get_body", "get_ack", Failure(Err("Io")))
    /\ UNCHANGED <<call, opts, bld, peerSilent, hist, trackHist, shell, prev, calc>>

\* the trailing expect_ack of get_info, and what the caller does with
\* (version, cmds) up to its next request
GetAck ==
    /\ pc = "get_ack"
    /\ \E o \in ReadOutcomes(AckBytes) :
         /\ lastIo' = o
         /\ IF failed(expect_ack(o))
            THEN /\ Returns(Failure(expect_ack(o)))
                 /\ log' = Received(log, o)
                 /\ UNCHANGED sess
            ELSE /\ sess' = [sess EXCEPT !.cmds = sess.buf, !.buf = << >>, !.n = 0,
                                         !.version = IF call = "identify" THEN @ ELSE 0]
                 /\ IF call = "identify"
                    THEN Goes("id_cmd") /\ log' = Received(log, o)
                    ELSE /\ log' = Info(Received(log, o), "erasing")
                         /\ IF erase_choice(sess.buf) = "none"
                            THEN Returns(FlashResult(Err("NoEraseSupport")))
                            ELSE Goes("erase_cmd")
    /\ UNCHANGED <<call, opts, bld, peerSilent, hist, trackHist, shell, prev, calc>>

----------------------------------------------------------------------------
(* get_id, and the end of identify *)

\* variant of pid_of: two bytes are read least significant byte first
pid_of_little_endian(pid_bytes) ==
    IF Len(pid_bytes) = 2
    THEN [err |-> Ok, pid |-> pid_bytes[2] * 256 + pid_bytes[1]]
    ELSE IF Len(pid_bytes) = 1
    THEN [err |-> Ok, pid |-> pid_bytes[1]]
    ELSE [err |-> Unexpected(0), pid |-> 0]

\* the match on pid_bytes
pid_of(pid_bytes) ==
    IF Len(pid_bytes) = 2
    THEN [err |-> Ok, pid |-> pid_bytes[1] * 256 + pid_bytes[2]]
    ELSE IF Len(pid_bytes) = 1
    THEN [err |-> Ok, pid |-> pid_bytes[1]]
    ELSE [err |-> Unexpected(0), pid |-> 0]

\* variant of identify_done: `get_id(..)?`, a failing GET ID fails the call
identify_done_strict(ver, cmds, r) ==
    IF r.err = Ok THEN IdentifyOk(ver, cmds, Some(r.pid)) ELSE IdentifyErr(r.err)

\* identify: `get_id(..).ok()` and the IdentifyResult built from it
identify_done(ver, cmds, r) ==
    IdentifyOk(ver, cmds, IF r.err = Ok THEN Some(r.pid) ELSE None)

IdFailed(e) == identify_done(sess.version, sess.cmds, [err |-> e, pid |-> 0])

\* observation: the Result<u16> get_id returned, Err(e) or Ok(pid)
get_id_err(e) == [fn |-> "get_id", in |-> sess.buf, out |-> <<[err |-> e, pid |-> 0]>>]
get_id_ret(r) == [fn |-> "get_id", in |-> sess.buf, out |-> <<r>>]

IdCmd ==
    /\ pc = "id_cmd"
    /\ \E o \in ReqOutcomes :
         /\ log' = Request(log, "cmd", CmdFrame(CMD_GET_ID), o)
         /\ lastIo' = o
         /\ IF failed(Answer(o))
            THEN Returns(IdFailed(Answer(o))) /\ calc' = get_id_err(Answer(o))
            ELSE Goes("id_n") /\ UNCHANGED calc
    /\ UNCHANGED <<call, opts, sess, bld, peerSilent, hist, trackHist, shell, prev>>

IdN ==
    /\ pc = "id_n"
    /\ \E o \in ReadOutcomes(0..MaxPidN) :
         /\ lastIo' = o
         /\ log' = Received(log, o)
         /\ IF failed(read_byte_with_timeout(o))
            THEN /\ Returns(IdFailed(read_byte_with_timeout(o)))
                 /\ calc' = get_id_err(read_byte_with_timeout(o))
                 /\ UNCHANGED sess
            ELSE /\ Goes("id_body")
                 /\ sess' = [sess EXCEPT !.n = o.b, !.buf = << >>]
                 /\ UNCHANGED calc
    /\ UNCHANGED <<call, opts, bld, peerSilent, hist, trackHist, shell, prev>>

\* one pass of `while read_total < pid_bytes.len()`
IdBody ==
    /\ pc = "id_body"
    /\ \E k \in 1..(sess.n + 1 - Len(sess.buf)) :
       \E o \in BulkOutcomes(PidChunks(k)) :
         /\ BulkPoll(o, sess.n + 1, "id_body", "id_ack", IdFailed(Err("Io")))
         /\ calc' = IF o.t = "rio" THEN get_id_err(Err("Io")) ELSE calc
    /\ UNCHANGED <<call, opts, bld, peerSilent, hist, trackHist, shell, prev>>

IdAck ==
    /\ pc = "id_ack"
    /\ \E o \in ReadOutcomes(AckBytes) :
         /\ lastIo' = o
         /\ log' = Received(log, o)
         /\ IF failed(expect_ack(o))
            THEN /\ Returns(IdFailed(expect_ack(o)))
                 /\ calc' = get_id_err(expect_ack(o))
            ELSE /\ Returns(identify_done(sess.version, sess.cmds, pid_of(sess.buf)))
                 /\ calc' = get_id_ret(pid_of(sess.buf))
    /\ UNCHANGED <<call, opts, sess, bld, peerSilent, hist, trackHist, shell, prev>>

-----
(* flash_hex: mass erase *)

erase_cmd(cmds) ==
    IF erase_choice(cmds) = "extended" THEN CMD_EXTENDED_ERASE ELSE CMD_ERASE

\* the frame after the command: [FF FF 00] (extended_erase_all), [FF 00] (erase_all)
erase_arg(cmds) ==
    IF erase_choice(cmds) = "extended" THEN <<255, 255, 0>> ELSE <<255, 0>>

EraseCmd ==
    /\ pc = "erase_cmd"
    /\ \E o \in ReqOutcomes :
         /\ log' = Request(log, "cmd", CmdFrame(erase_cmd(sess.cmds)), o)
         /\ lastIo' = o
         /\ IF failed(Answer(o)) THEN Returns(Failure(Answer(o))) ELSE Goes("erase_arg")
    /\ UNCHANGED <<call, opts, sess, bld, peerSilent, hist, trackHist, shell, prev, calc>>

\* variant of next_block: the loop stops after the first block
next_block_one(blocks, j) == IF j = 1 THEN 1 ELSE Len(blocks) + 1

\* the first block at or after j that has bytes to write (`for (base, data)
\* in blocks` with `while offset < data.len()`), Len(blocks) + 1 if none
next_block(blocks, j) ==
    IF \E i \in j..Len(blocks) : Len(blocks[i].data) > 0
    THEN CHOOSE i \in j..Len(blocks) :
            /\ Len(blocks[i].data) > 0
            /\ \A h \in j..(i - 1) : Len(blocks[h].data) = 0
    ELSE Len(blocks) + 1

\* variant of launch: GO is tried whether or not the target lists it
launch_go_unlisted(reset_after, cmds) == IF reset_after THEN "go_cmd" ELSE "done"

\* flash_hex after the write loop: the launch step up to its first request
\* ("go_cmd", "hwreset") or to the return ("done")
launch(reset_after, cmds) ==
    IF reset_after
    THEN IF Contains(cmds, CMD_GO) THEN "go_cmd" ELSE "hwreset"
    ELSE "done"

\* the lines logged on the way out of flash_hex
Finished(lg) ==
    LET a == IF opts.reset_after THEN Info(lg, "started") ELSE lg
    IN  IF opts.verify THEN Append(a, LogLine("warn", "verify", << >>)) ELSE a

\* the write loop is over (or has nothing to do): the launch step
Launch(lg) ==
    LET to == launch(opts.reset_after, sess.cmds)
    IN  /\ log' = CASE to = "go_cmd" -> Info(lg, "starting")
                    [] to = "hwreset" -> Info(lg, "resetting")
                    [] OTHER -> Finished(lg)
        /\ IF to = "done" THEN Returns(FlashResult(Ok)) ELSE Goes(to)

EraseArg ==
    /\ pc = "erase_arg"
    /\ \E o \in ReqOutcomes :
         LET sent == Request(log, "erase", erase_arg(sess.cmds), o)
             first == next_block(sess.blocks, 1)
         IN  /\ lastIo' = o
             /\ IF failed(Answer(o))
                THEN Returns(Failure(Answer(o))) /\ log' = sent /\ UNCHANGED sess
                ELSE /\ sess' = [sess EXCEPT !.written = 0, !.bi = first, !.offset = 0]
                     /\ IF first <= Len(sess.blocks)
                        THEN Goes("wr_cmd") /\ log' = Info(sent, "writing")
                        ELSE Launch(Info(sent, "writing"))
    /\ UNCHANGED <<call, opts, bld, peerSilent, hist, trackHist, shell, prev, calc>>

----------------------------------------------------------------------------
(* flash_hex: the write loop, write_memory *)

\* variant of chunk_end: a stride of 255
chunk_end_short(offset, len) == IF offset + 255 < len THEN offset + 255 ELSE len

\* end = (offset + 256).min(data.len())
chunk_end(offset, len) == IF offset + CHUNK < len THEN offset + CHUNK ELSE len

\* the chunk being written and its destination
cur_data == sess.blocks[sess.bi].data
cur_end == chunk_end(sess.offset, Len(cur_data))
cur_chunk == SubSeq(cur_data, sess.offset + 1, cur_end)
cur_addr == sess.blocks[sess.bi].base + sess.offset

\* write_memory: the size check, then send_cmd(CMD_WRITE_MEMORY)
WriteCmd ==
    /\ pc = "wr_cmd"
    /\ IF Len(cur_chunk) = 0 \/ Len(cur_chunk) > 256
       THEN Returns(Failure(Err("Io"))) /\ UNCHANGED <<log, lastIo>>
       ELSE \E o \in ReqOutcomes :
              /\ log' = Request(log, "cmd", CmdFrame(CMD_WRITE_MEMORY), o)
              /\ lastIo' = o
              /\ IF failed(Answer(o)) THEN Returns(Failure(Answer(o))) ELSE Goes("wr_addr")
    /\ UNCHANGED <<call, opts, sess, bld, peerSilent, hist, trackHist, shell, prev, calc>>

WriteAddr ==
    /\ pc = "wr_addr"
    /\ \E o \in ReqOutcomes :
         /\ log' = Request(log, "addr", AddrFrame(cur_addr), o)
         /\ lastIo' = o
         /\ IF failed(Answer(o)) THEN Returns(Failure(Answer(o))) ELSE Goes("wr_data")
    /\ UNCHANGED <<call, opts, sess, bld, peerSilent, hist, trackHist, shell, prev, calc>>

\* variant of progress_line: the bytes of the image are reported as written
progress_line_total(written, total) == LogLine("info", "PROGRESS", <<total, total>>)

\* format!("PROGRESS:写入中:{written}:{total}") handed to the logger
progress_line(written, total) == LogLine("info", "PROGRESS", <<written, total>>)

\* the payload frame of write_memory; when it is acknowledged, the rest of
\* the loop body and the loop heads up to the next write_memory
WriteData ==
    /\ pc = "wr_data"
    /\ \E o \in ReqOutcomes :
         LET sent == Request(log, "data", DataFrame(cur_chunk), o)
             written == sess.written + Len(cur_chunk)
             progress == Append(sent, progress_line(written, sess.total))
             more == cur_end < Len(cur_data)
             nb == next_block(sess.blocks, sess.bi + 1)
         IN  /\ lastIo' = o
             /\ IF failed(Answer(o))
                THEN Returns(Failure(Answer(o))) /\ log' = sent /\ UNCHANGED sess
                ELSE /\ sess' = [sess EXCEPT !.written = written,
                                             !.offset = IF more THEN cur_end ELSE 0,
                                             !.bi = IF more THEN @ ELSE nb]
                     /\ IF more \/ nb <= Len(sess.blocks)
                        THEN Goes("wr_cmd") /\ log' = progress
                        ELSE Launch(progress)
    /\ UNCHANGED <<call, opts, bld, peerSilent, hist, trackHist, shell, prev, calc>>

----------------------------------------------------------------------------
(* flash_hex: go_command, do_hardware_reset *)

\* variant of GoFailed: `go_command(..)?`, the error leaves flash_hex
GoFailed_fatal(lg, e) ==
    /\ log' = lg
    /\ Returns(Failure(e))

\* `if let Err(e) = go_command(..)`: the warning, then do_hardware_reset
GoFailed(lg, e) ==
    /\ log' = Append(lg, LogErr("warn", "go_failed", e))
    /\ Goes("hwreset")

\* variant of go_command: the frames are written and no answer is waited for
go_command_unread(o) == IF o.t \in {"wio", "fio"} THEN Err("Io") ELSE Ok

\* go_command: what send_cmd(CMD_GO)? and send_address(address)? make of the
\* answer o to their frame
go_command(o) == Answer(o)

GoCmd ==
    /\ pc = "go_cmd"
    /\ \E o \in ReqOutcomes :
         LET sent == Request(log, "cmd", CmdFrame(CMD_GO), o)
         IN  /\ lastIo' = o
             /\ IF failed(go_command(o))
                THEN GoFailed(sent, go_command(o))
                ELSE Goes("go_addr") /\ log' = sent
    /\ UNCHANGED <<call, opts, sess, bld, peerSilent, hist, trackHist, shell, prev, calc>>

GoAddr ==
    /\ pc = "go_addr"
    /\ \E o \in ReqOutcomes :
         LET sent == Request(log, "addr", AddrFrame(GO_ADDRESS), o)
         IN  /\ lastIo' = o
             /\ IF failed(go_command(o))
                THEN GoFailed(sent, go_command(o))
                ELSE Returns(FlashResult(Ok)) /\ log' = Finished(sent)
    /\ UNCHANGED <<call, opts, sess, bld, peerSilent, hist, trackHist, shell, prev, calc>>

ResetSeq == <<Rts(FALSE), Dtr(TRUE), Dtr(FALSE), Dtr(TRUE)>>

HardwareReset ==
    /\ pc = "hwreset"
    /\ \E done \in 0..Len(ResetSeq) :
         IF done < Len(ResetSeq)
         THEN /\ log' = LinesWritten(log, ResetSeq, done)
              /\ Returns(Failure(Err("Serial")))
         ELSE /\ log' = Finished(LinesWritten(log, ResetSeq, done))
              /\ Returns(FlashResult(Ok))
    /\ UNCHANGED <<call, opts, sess, bld, lastIo, peerSilent, hist, trackHist, shell, prev, calc>>

----------------------------------------------------------------------------
(* The peer *)

\* The target stops sending: from here on every read of the host finds
\* nothing (the cable is pulled, the bootloader has crashed or has jumped).
PeerStops ==
    /\ pc \notin {"done"}
    /\ ~peerSilent
    /\ peerSilent' = TRUE
    /\ UNCHANGED <<pc, call, opts, port, sess, bld, log, lastIo, result, hist, trackHist, shell, prev, calc>>

----------------------------------------------------------------------------
(* The GUI shell (frontend/src/commands.rs): flash_firmware *)

\* the boot_mode strings the GUI passes in this model, and parse_boot_mode
ShellModes == {"none", "dtr-low-rts-high", "rts-high-only", "bogus"}

parse_boot_mode(mode) ==
    CASE mode = "none" -> [err |-> Ok, mode |-> "None"]
      [] mode = "dtr-low-rts-high" -> [err |-> Ok, mode |-> "DtrLowRtsHigh"]
      [] mode = "dtr-high-rts-high" -> [err |-> Ok, mode |-> "DtrHighRtsHigh"]
      [] mode = "dtr-high-rts-low" -> [err |-> Ok, mode |-> "DtrHighRtsLow"]
      [] mode = "dtr-high-only" -> [err |-> Ok, mode |-> "DtrHighOnly"]
      [] mode = "rts-low-dtr-high" -> [err |-> Ok, mode |-> "RtsLowDtrHigh"]
      [] mode = "rts-low-dtr-low" -> [err |-> Ok, mode |-> "RtsLowDtrLow"]
      [] mode = "rts-low-only" -> [err |-> Ok, mode |-> "RtsLowOnly"]
      [] mode = "rts-high-only" -> [err |-> Ok, mode |-> "RtsHighOnly"]
      [] OTHER -> [err |-> Err("Unknown boot mode"), mode |-> "None"]

\* what flash_hex returns to the shell
FlashOutcomes == {Ok, Err("Timeout"), Err("Nack"), Err("HexFileNotFound")}

\* what the command returns to the GUI: Err(String) or Ok(FlashResult)
Rejected(msg) == Some([ok |-> FALSE, err |-> Err(msg), result |-> None])
Completed(r) == Some([ok |-> TRUE, err |-> Ok,
                      result |-> Some([ok |-> r = Ok, error |-> r])])

FlashDone(i, r) == [name |-> "flash-done", ok |-> r = Ok, by |-> i]

\* variant of already_flashing: the flag is not looked at
already_flashing_ignored(flag) == FALSE

\* `if *is_flashing` under the lock
already_flashing(flag) == flag

ShellUnchanged ==
    UNCHANGED <<pc, call, opts, port, sess, bld, log, lastIo, result,
                peerSilent, hist, trackHist, prev, calc>>

\* lock; test the flag; set it; unlock
Guard(i) ==
    /\ shell.inv[i].pc = "idle"
    /\ \E m \in ShellModes :
          IF already_flashing(shell.is_flashing)
          THEN shell' = [shell EXCEPT
                   !.inv[i] = [pc |-> "returned",
                               ret |-> Rejected("Already flashing")]]
          ELSE shell' = [shell EXCEPT
                   !.is_flashing = TRUE,
                   !.inv[i] = [pc |-> "parse", mode |-> m, ret |-> None]]
    /\ ShellUnchanged

\* parse_boot_mode(&boot_mode)?, then the call of flash_hex
ParseMode(i) ==
    /\ shell.inv[i].pc = "parse"
    /\ LET r == parse_boot_mode(shell.inv[i].mode)
       IN  IF r.err # Ok
           THEN shell' = [shell EXCEPT
                    !.inv[i] = [pc |-> "returned", ret |-> Rejected(r.err.kind)]]
           ELSE shell' = [shell EXCEPT !.inv[i].pc = "flash_hex"]
    /\ ShellUnchanged

\* flash_hex returns
FlashHexReturns(i) ==
    /\ shell.inv[i].pc = "flash_hex"
    /\ \E r \in FlashOutcomes :
          shell' = [shell EXCEPT !.inv[i] = [pc |-> "release", res |-> r,
                                             ret |-> None]]
    /\ ShellUnchanged

\* lock; clear the flag; unlock
Release(i) ==
    /\ shell.inv[i].pc = "release"
    /\ shell' = [shell EXCEPT !.is_flashing = FALSE, !.inv[i].pc = "emit"]
    /\ ShellUnchanged

\* app.emit("flash-done", ..) and the return of Ok(FlashResult)
EmitDone(i) ==
    /\ shell.inv[i].pc = "emit"
    /\ shell' = [shell EXCEPT
           !.events = Append(@, FlashDone(i, shell.inv[i].res)),
           !.inv[i] = [pc |-> "returned", ret |-> Completed(shell.inv[i].res)]]
    /\ ShellUnchanged

flash_firmware(i) ==
    Guard(i) \/ ParseMode(i) \/ FlashHexReturns(i) \/ Release(i) \/ EmitDone(i)

----------------------------------------------------------------------------
(* The frame codec, one call at a time *)

\* what the port holds for the next reads: the bytes the target has sent and
\* the host has not read yet, and whether the read fails
Queues ==
    {<< >>} \cup {<<b>> : b \in 0..255}
            \cup {<<b, c>> : b \in 0..255, c \in {ACK, NACK}}

\* port.read(&mut buf) on the one-byte buffer, repeated up to the deadline:
\* the first byte of the queue is taken, or nothing arrives, or the read fails
port_read(queue, fails) ==
    IF fails THEN [o |-> ReadIo, rest |-> queue]
    ELSE IF queue = << >> THEN [o |-> TimedOut, rest |-> queue]
    ELSE [o |-> ByteIn(Head(queue)), rest |-> Tail(queue)]

\* the addresses and payloads of the codec calls
Addresses == {0, 1, 255, 256, 65535, 65536, FlashBase, FlashBase + CHUNK,
              FlashBase + 2 * CHUNK + 1 + Gap, 305419896, 1431655765,
              2147483647}
PayloadLens == {0, 1, 2, 3, CHUNK - 1, CHUNK, CHUNK + 1}
Payload(n, m, k) == [i \in 1..n |-> (i * m + k) % 256]
Payloads == {Payload(n, m, k) : n \in PayloadLens, m \in {0, 1, 7}, k \in {0, 171, 255}}

CodecUnchanged ==
    UNCHANGED <<pc, call, opts, port, sess, bld, log, lastIo, result,
                peerSilent, hist, trackHist, shell, prev>>

\* one call of expect_ack
ExpectAckCall ==
    /\ calc.fn = "none"
    /\ \E q \in Queues, fails \in BOOLEAN :
          LET rd == port_read(q, fails)
          IN  calc' = [fn |-> "expect_ack",
                       in |-> [queue |-> q, fails |-> fails],
                       out |-> [r |-> expect_ack(rd.o), rest |-> rd.rest]]
    /\ CodecUnchanged

\* one call of send_cmd: what it writes
SendCmdCall ==
    /\ calc.fn = "none"
    /\ \E c \in 0..255 :
          calc' = [fn |-> "send_cmd", in |-> c, out |-> <<CmdFrame(c)>>]
    /\ CodecUnchanged

\* one call of send_address: what it writes
SendAddressCall ==
    /\ calc.fn = "none"
    /\ \E a \in Addresses :
          calc' = [fn |-> "send_address", in |-> a, out |-> <<AddrFrame(a)>>]
    /\ CodecUnchanged

\* the size test of write_memory
write_size_ok(data) == ~(Len(data) = 0 \/ Len(data) > 256)

\* one call of write_memory whose stages are all acknowledged: what it writes
WriteMemoryCall ==
    /\ calc.fn = "none"
    /\ \E a \in Addresses, data \in Payloads :
          calc' = [fn |-> "write_memory",
                   in |-> [address |-> a, data |-> data],
                   out |-> IF write_size_ok(data)
                           THEN <<CmdFrame(CMD_WRITE_MEMORY), AddrFrame(a),
                                  DataFrame(data)>>
                           ELSE << >>]
    /\ CodecUnchanged

CodecNext == ExpectAckCall \/ SendCmdCall \/ SendAddressCall \/ WriteMemoryCall

----------------------------------------------------------------------------
(* image_to_blocks, one call at a time *)

\* the images of these calls: every set of addresses out of a window of
\* BlockWindow addresses starting at 0x08000000, in ascending order as the
\* BTreeMap yields them, each byte a function of its address
WindowAddrs == {FlashBase + k : k \in 0..(BlockWindow - 1)}

RECURSIVE ImageOf(_)
ImageOf(addrs) ==
    IF addrs = {} THEN << >>
    ELSE LET a == CHOOSE x \in addrs : \A y \in addrs : x <= y
         IN  <<Entry(a, (a * 7 + 3) % 256)>> \o ImageOf(addrs \ {a})

SmallImages == {ImageOf(S) : S \in SUBSET WindowAddrs}

\* image_to_blocks is entered with an image of SmallImages
BlocksInit ==
    /\ pc = "blocks"
    /\ call = "none"
    /\ opts \in Options({"None"}, {"none"}, {FALSE})
    /\ port = "closed"
    /\ sess = Sess0
    /\ bld \in {[Bld0 EXCEPT !.image = img] : img \in SmallImages}
    /\ log = << >>
    /\ lastIo = TimedOut
    /\ result = NoResult
    /\ peerSilent = FALSE
    /\ hist = << >>
    /\ trackHist = FALSE
    /\ shell = Shell0
    /\ prev = Prev0
    /\ calc = [fn |-> "image_to_blocks", in |-> bld.image, out |-> << >>]

----------------------------------------------------------------------------
(* parse_hex_to_image, one call at a time *)

\* the lines of the texts of these calls: data records (two bytes at offset
\* 0, one byte at offset 1 on top of them, two bytes across the end of the
\* 64K page, no byte at all), extended linear address records, a start
\* linear address and an extended segment address record, end of file, a
\* blank line, a line with a wrong checksum
HexLines ==
    {RecordLine(0, 0, <<18, 52>>), RecordLine(0, 1, <<86>>),
     RecordLine(0, 65535, <<120, 154>>), RecordLine(0, 0, << >>),
     RecordLine(4, 0, <<8, 1>>), PageLine,
     RecordLine(5, 0, <<8, 0, 1, 0>>), RecordLine(2, 0, <<16, 0>>),
     EofLine, Blank, BadLine}

\* ":020000040801F1\n:0400000012345678E8\n:00000001FF\n"
ScenarioE ==
    <<HexLine(<<2, 0, 0, 4, 8, 1, 241>>),
      HexLine(<<4, 0, 0, 0, 18, 52, 86, 120, 232>>),
      HexLine(<<0, 0, 0, 1, 255>>)>>

RECURSIVE Texts(_)
\* the texts of up to n lines
Texts(n) ==
    IF n = 0 THEN {<< >>}
    ELSE Texts(n - 1) \cup
         {Append(t, l) : t \in {u \in Texts(n - 1) : Len(u) = n - 1}, l \in HexLines}

HexTexts == Texts(MaxLines) \cup {ScenarioE}

HexInit ==
    /\ pc = "idle"
    /\ call = "none"
    /\ opts \in Options({"None"}, {"none"}, {FALSE})
    /\ port = "closed"
    /\ sess = Sess0
    /\ bld = Bld0
    /\ log = << >>
    /\ lastIo = TimedOut
    /\ result = NoResult
    /\ peerSilent = FALSE
    /\ hist = << >>
    /\ trackHist = FALSE
    /\ shell = Shell0
    /\ prev = Prev0
    /\ calc \in {[fn |-> "parse_hex_to_image", in |-> t, k |-> 1, st |-> Hex0,
                  out |-> None] : t \in HexTexts}

\* one pass of the loop over the lines, or the code after the loop
ParseStep ==
    /\ calc.fn = "parse_hex_to_image"
    /\ calc.out = None
    /\ IF calc.k > Len(calc.in) \/ calc.st.err # Ok \/ calc.st.eof
       THEN calc' = [calc EXCEPT !.out = Some(parse_text(calc.in))]
       ELSE calc' = [calc EXCEPT !.st = parse_line(@, calc.in[calc.k]),
                                 !.k = @ + 1]
    /\ CodecUnchanged

----------------------------------------------------------------------------
(* identify, called twice *)

\* the answers a call got on the port, in order: the bytes read (from the
\* ACK of the handshake on) and, once the call has returned, how its last
\* port operation ended; a call that returned from open_port has made none
\* (its log is empty and lastIo is as it was on entry)
Answers(lg, last, returned) ==
    LET rx == SelectSeq(lg, LAMBDA e : e.op = "rx")
        a == [i \in 1..Len(rx) |-> ByteIn(rx[i].v[1])]
    IN  IF returned /\ (lg # << >> \/ last # TimedOut)
        THEN Append(a, last)
        ELSE a

\* the caller calls identify again with the same port name and options: the
\* first call's result and answers are kept for comparison, the locals of
\* the new call are new, the port is in the state the first call left it in
CallAgain ==
    /\ call = "identify"
    /\ pc = "done"
    /\ prev.calls = 0
    /\ prev' = [calls |-> 1,
                answers |-> Answers(log, lastIo, TRUE),
                result |-> result,
                wire |-> SelectSeq(log, LAMBDA e : e.op = "tx")]
    /\ pc' = "open"
    /\ sess' = Sess0
    /\ log' = << >>
    /\ lastIo' = TimedOut
    /\ result' = NoResult
    /\ calc' = Calc0
    /\ UNCHANGED <<call, opts, port, bld, peerSilent, hist, trackHist, shell>>

\* the target is quiescent: in the second call it answers as it did in the
\* first (the answers of the second call so far are a prefix of the answers
\* of the first; answers to the autobaud byte that are not ACK are retried
\* and not compared, the one that ends the handshake is)
Quiescent ==
    prev.calls = 0 \/
        LET a == Answers(log, lastIo, pc = "done")
        IN  Len(a) <= Len(prev.answers) /\ SubSeq(prev.answers, 1, Len(a)) = a

\* the runs looked at: the handshake takes at most MaxSyncsTwice attempts and
\* the GET reply announces at most MaxNTwice + 1 command bytes
Within ==
    /\ Len(SelectSeq(log, LAMBDA e : e.op = "tx" /\ e.kind = "sync")) <= MaxSyncsTwice
    /\ pc = "get_ver" => sess.n <= MaxNTwice

Admitted == Within /\ Quiescent

TwiceNext ==
    \/ OpenPort /\ Admitted'
    \/ ApplyBootMode /\ Admitted'
    \/ AutobaudAttempt /\ Admitted'
    \/ GetCmd /\ Admitted'
    \/ GetN /\ Admitted'
    \/ GetVersion /\ Admitted'
    \/ GetBody /\ Admitted'
    \/ GetAck /\ Admitted'
    \/ IdCmd /\ Admitted'
    \/ IdN /\ Admitted'
    \/ IdBody /\ Admitted'
    \/ IdAck /\ Admitted'
    \/ CallAgain

----------------------------------------------------------------------------
(* parse_hex_to_image: the addresses of a data record, in u32 *)

\* A u32 as its two 16-bit halves (TLC's integers end below 2^32).
U32(hi, lo) == [hi |-> hi, lo |-> lo]

\* (upper << 16) | (offset as u32), upper being `hi as u32` of a u16
shl16_or(upper, offset) == U32(upper % 65536, offset % 65536)

\* base + (i as u32) on u32: the sum modulo 2^32 and whether it overflowed
add_u32(a, i) ==
    LET lo == a.lo + i
        hi == a.hi + (lo \div 65536)
    IN  [overflow |-> hi >= 65536, sum |-> U32(hi % 65536, lo % 65536)]

\* the data records of these calls: the upper value in force, the offset
\* and the number of bytes of the record
Uppers == {0, 2048, 32767, 65534, 65535}
Offsets == {0, 256, 65534, 65535}
MaxValueLen == 3

\* the loop over the bytes of one data record, before its first pass, in a
\* build with overflow checks and in one without
InsertInit ==
    /\ pc = "idle"
    /\ call = "none"
    /\ opts \in Options({"None"}, {"none"}, {FALSE})
    /\ port = "closed"
    /\ sess = Sess0
    /\ bld = Bld0
    /\ log = << >>
    /\ lastIo = TimedOut
    /\ result = NoResult
    /\ peerSilent = FALSE
    /\ hist = << >>
    /\ trackHist = FALSE
    /\ shell = Shell0
    /\ prev = Prev0
    /\ calc \in {[fn |-> "data_record", upper |-> u, offset |-> o, n |-> n,
                  overflow_checks |-> c, i |-> 0, keys |-> << >>, panicked |-> FALSE] :
                    u \in Uppers, o \in Offsets, n \in 0..MaxValueLen, c \in BOOLEAN}

\* one pass of `for (i, b) in value.into_iter().enumerate()`:
\* image.insert(base + (i as u32), b).  An addition that overflows panics in
\* a build with overflow checks and wraps in a build without.
InsertByte ==
    /\ calc.fn = "data_record"
    /\ ~calc.panicked
    /\ calc.i < calc.n
    /\ LET key == add_u32(shl16_or(calc.upper, calc.offset), calc.i)
       IN  IF key.overflow /\ calc.overflow_checks
           THEN calc' = [calc EXCEPT !.panicked = TRUE]
           ELSE calc' = [calc EXCEPT !.keys = Append(@, key.sum), !.i = @ + 1]
    /\ CodecUnchanged

----------------------------------------------------------------------------
(* Specifications *)

Prepare == FlashParse \/ BuildBlocks

Connect == OpenPort \/ ApplyBootMode \/ AutobaudAttempt

GetInfo == GetCmd \/ GetN \/ GetVersion \/ GetBody \/ GetAck

GetId == IdCmd \/ IdN \/ IdBody \/ IdAck

FlashNext ==
    \/ Prepare \/ Connect \/ GetInfo
    \/ EraseCmd \/ EraseArg \/ WriteCmd \/ WriteAddr \/ WriteData
    \/ GoCmd \/ GoAddr \/ HardwareReset

IdentifyNext == Connect \/ GetInfo \/ GetId

SyncNext == Prepare \/ Connect \/ GetCmd

Next == IdentifyNext \/ FlashNext

\* identify and flash_hex, every input
Spec == Init /\ [][Next]_vars

\* flash_hex alone, with a boot entry that drives both control lines
SpecFlash ==
    /\ InitWith(FALSE, {"flash"}, {"DtrLowRtsHigh"}, HexFiles, BOOLEAN)
    /\ [][FlashNext]_vars

\* identify alone
SpecId ==
    /\ InitWith(FALSE, {"identify"}, {"None", "DtrLowRtsHigh"}, {"none"}, {FALSE})
    /\ [][IdentifyNext]_vars

\* the handshake of both calls, with the answer to every attempt recorded
SpecSync ==
    /\ InitWith(TRUE, {"identify", "flash"}, {"None"}, {"missing", "image300"}, {FALSE})
    /\ [][SyncNext]_vars

\* both calls against a peer that may stop answering; the host keeps running
SpecPeer ==
    /\ InitWith(FALSE, {"identify", "flash"}, {"None"}, {"image300"}, {TRUE})
    /\ [][Next \/ PeerStops]_vars
    /\ WF_vars(Next)

\* flash_hex up to the end of the write loop, on the files with an image,
\* without boot entry and without reset
WriteNext ==
    \/ Prepare \/ Connect \/ GetInfo
    \/ EraseCmd \/ EraseArg \/ WriteCmd \/ WriteAddr \/ WriteData

SpecWrite ==
    /\ InitWith(FALSE, {"flash"}, {"None"}, {"image300", "two"}, {FALSE})
    /\ [][WriteNext]_vars

\* the GUI shell alone: flash_firmware invoked up to MaxInvocations times,
\* the invocations running concurrently (the command is async)
ShellNext == \E i \in Invocations : flash_firmware(i)

SpecShell ==
    /\ InitWith(FALSE, {"none"}, {"None"}, {"none"}, {FALSE})
    /\ [][ShellNext]_vars

\* the same, every invocation running on to its return
SpecShellFair ==
    /\ InitWith(FALSE, {"none"}, {"None"}, {"none"}, {FALSE})
    /\ [][ShellNext]_vars
    /\ WF_vars(ShellNext)

\* the codec functions, each called once on every input of the model
SpecCodec ==
    /\ InitWith(FALSE, {"none"}, {"None"}, {"none"}, {FALSE})
    /\ [][CodecNext]_vars

\* image_to_blocks alone, on every image of SmallImages
SpecBlocks == BlocksInit /\ [][BuildBlocks]_vars

\* parse_hex_to_image alone, on every text of HexTexts
SpecHex == HexInit /\ [][ParseStep]_vars

\* identify called twice back-to-back against a quiescent target
SpecTwice ==
    /\ InitWith(FALSE, {"identify"}, {"None"}, {"none"}, {FALSE})
    /\ [][TwiceNext]_vars

\* the boot entry of every BootMode, then the handshake
SpecBoot ==
    /\ InitWith(FALSE, {"identify"}, BootModes, {"none"}, {FALSE})
    /\ [][Connect]_vars

\* the address arithmetic of one data record
SpecAddr == InsertInit /\ [][InsertByte]_vars

----------------------------------------------------------------------------
(* Reading the log *)

IsTx(e) == e.op = "tx"
IsRx(e) == e.op = "rx"
IsLine(e) == e.op = "line"
IsSync(e) == e.op = "tx" /\ e.kind = "sync"

\* the frames written so far, the 0x7F bytes among them
Frames == SelectSeq(log, IsTx)
Syncs == SelectSeq(log, IsSync)

----------------------------------------------------------------------------
(* The handshake *)

\* C1: whatever the peer answers to each of them (nothing, NACK, another
\* byte, ACK, a read error), one call writes at most five 0x7F bytes, and
\* every one of them is the single byte 0x7F.
C1_AtMostFiveSyncs ==
    /\ Len(Syncs) <= 5
    /\ \A i \in 1..Len(Syncs) : Syncs[i].v = <<127>>

\* five 0x7F bytes were written: the first four were answered by silence,
\* a NACK, a stray byte and a read error in some order
C1_FiveSyncsSent ==
    /\ Len(Syncs) = 5
    /\ Len(hist) = 5
    /\ \E i, j, k, l \in 1..4 :
         /\ hist[i] = TimedOut
         /\ hist[j] = ByteIn(NACK)
         /\ hist[k] = ByteIn(85)
         /\ hist[l] = ReadIo

\* the peer let the first Len(h) - 1 bytes go by and ACKed the last
IgnoredThenAck(h) ==
    /\ Len(h) \in 1..5
    /\ h[Len(h)] = ByteIn(ACK)
    /\ \A i \in 1..(Len(h) - 1) : h[i] = TimedOut

\* C10: when the peer ignores the first k 0x7F bytes (0 <= k <= 4) and ACKs
\* byte k+1, that attempt ends the handshake with success (the call goes on
\* to GET) after exactly k+1 bytes 0x7F, and none is written afterwards.
C10_Step ==
    /\ (pc = "sync" /\ hist' # hist /\ IgnoredThenAck(hist'))
          => /\ pc' = "get_cmd"
             /\ result' = NoResult
             /\ Len(SelectSeq(log', IsSync)) = Len(hist')
    /\ pc # "sync" => SelectSeq(log', IsSync) = Syncs

\* C10: every step of a call keeps to C10_Step.
C10_AckEndsHandshake == [][C10_Step]_vars

\* two bytes ignored, the third ACKed: three attempts, the call is at GET
C10_ThirdAttemptAcked ==
    /\ hist = <<TimedOut, TimedOut, ByteIn(ACK)>>
    /\ Len(Syncs) = 3
    /\ pc = "get_cmd"

----------------------------------------------------------------------------
(* Deadlines *)

\* the polls of a reply body: `while read_total < buf.len()` in get_info
\* and get_id
InBody == pc \in {"get_body", "id_body"}

\* C2: once the peer has stopped sending, wherever the call is (the middle
\* of a GET or GET ID reply body included), the call eventually returns.
C2_ReturnsOnceSilent == peerSilent ~> (pc = "done")

\* What the code does guarantee: once the peer has stopped sending, the
\* call returns or is polling for the rest of a reply body.
C2_ReturnsOrPollsBody == peerSilent ~> (pc = "done" \/ InBody)

\* the peer stopped after the count and version bytes of a GET reply: the
\* call polls for command bytes that will not come
C2_SilentInGetBody ==
    /\ peerSilent
    /\ pc = "get_body"
    /\ Len(sess.buf) < sess.n

----------------------------------------------------------------------------
(* identify *)

\* where the frame f was first written (0: nowhere)
FirstTx(f) ==
    IF \E i \in DOMAIN log : IsTx(log[i]) /\ log[i].v = f
    THEN CHOOSE i \in DOMAIN log :
            /\ IsTx(log[i]) /\ log[i].v = f
            /\ \A j \in 1..(i - 1) : ~(IsTx(log[j]) /\ log[j].v = f)
    ELSE 0

\* the bytes read between entry i of the log and the next entry that is
\* not a byte read
RxAfter(i) ==
    LET stop == IF \E j \in (i + 1)..Len(log) : ~IsRx(log[j])
                THEN CHOOSE j \in (i + 1)..Len(log) :
                        /\ ~IsRx(log[j])
                        /\ \A h \in (i + 1)..(j - 1) : IsRx(log[h])
                ELSE Len(log) + 1
    IN  [k \in 1..(stop - i - 1) |-> log[i + k].v[1]]

\* the peer's reply to GET [00 FF] and to GET ID [02 FD], as far as read
ReplyTo(f) == LET i == FirstTx(f) IN IF i = 0 THEN << >> ELSE RxAfter(i)
GetReply == ReplyTo(<<0, 255>>)
IdReply == ReplyTo(<<2, 253>>)

\* a whole GET reply: ACK, N, version, N command bytes, ACK
WholeReply(r) ==
    /\ Len(r) >= 4
    /\ r[1] = 121
    /\ Len(r) = r[2] + 4
    /\ Last(r) = 121

GetReplied == WholeReply(GetReply)

\* a whole GET ID reply that carries a product id: ACK, N, N+1 bytes of
\* product id (one or two), ACK
IdReplied == LET r == IdReply IN WholeReply(r) /\ r[2] \in {0, 1}

IdReplyPid ==
    IF IdReply[2] = 0 THEN IdReply[3] ELSE IdReply[3] * 256 + IdReply[4]

\* C9: when identify returns after a GET that succeeded, the result has
\* ok = true, the version and the command bytes as the peer sent them and
\* no error text, however GET ID ended; product_id is absent exactly when
\* GET ID failed, and otherwise is the id the peer sent.
C9_GetIdNotFatal ==
    (call = "identify" /\ pc = "done" /\ GetReplied)
        => /\ result.ret /\ result.ok
           /\ result.version = <<GetReply[3]>>
           /\ result.cmds = SubSeq(GetReply, 4, Len(GetReply) - 1)
           /\ result.error = << >>
           /\ (result.pid = << >>) <=> ~IdReplied
           /\ IdReplied => result.pid = <<IdReplyPid>>

\* the peer answered GET with N=3, version 0x31, commands 00 31 43 and never
\* answered GET ID
C9_GetIdUnanswered ==
    /\ call = "identify" /\ pc = "done"
    /\ GetReply = <<121, 3, 49, 0, 49, 67, 121>>
    /\ Frames[Len(Frames)].v = <<2, 253>>
    /\ IdReply = << >>
    /\ lastIo = TimedOut
    /\ result.ok
    /\ result.version = <<49>>
    /\ result.cmds = <<0, 49, 67>>
    /\ result.pid = << >>

----------------------------------------------------------------------------
(* flash_hex: mass erase dispatch *)

\* the bytes of every frame written so far
Wire == [i \in 1..Len(Frames) |-> Frames[i].v]

\* position in the frame list w of the first frame f (0: not there)
WireAt(w, f) ==
    IF \E i \in 1..Len(w) : w[i] = f
    THEN CHOOSE i \in 1..Len(w) : w[i] = f /\ \A j \in 1..(i - 1) : w[j] # f
    ELSE 0

IsPrefix(s, t) == Len(s) <= Len(t) /\ s = SubSeq(t, 1, Len(s))

\* the frames written after GET [00 FF] and before the first write-memory
\* command [31 CE]
AfterGet ==
    LET w == Wire
        g == WireAt(w, <<0, 255>>)
        m == WireAt(w, <<49, 206>>)
    IN  IF g = 0 THEN << >>
        ELSE SubSeq(w, g + 1, IF m = 0 THEN Len(w) ELSE m - 1)

\* the command bytes of the GET reply
GetCmds == SubSeq(GetReply, 4, Len(GetReply) - 1)

ExtendedErase == << <<68, 187>>, <<255, 255, 0>> >>
LegacyErase == << <<67, 188>>, <<255, 0>> >>

\* the erase the command set calls for (<< >>: none)
EraseFor(cmds) ==
    IF Contains(cmds, 68) THEN ExtendedErase
    ELSE IF Contains(cmds, 67) THEN LegacyErase
    ELSE << >>

\* C5: the frames flash_hex writes between GET and the first write-memory
\* command are those of the erase its command set calls for: [44 BB] then
\* [FF FF 00] when it contains 0x44 (with or without 0x43), [43 BC] then
\* [FF 00] when it contains 0x43 only, both of them once the erase has been
\* acknowledged; with neither command the call returns NoEraseSupport and has
\* written no frame after GET.  Before GET has replied nothing follows it.
C5_EraseDispatch ==
    call = "flash" =>
        LET sent == AfterGet
            erase == EraseFor(GetCmds)
        IN  IF GetReplied
            THEN /\ IsPrefix(sent, erase)
                 /\ pc \in {"wr_cmd", "wr_addr", "wr_data", "go_cmd", "go_addr", "hwreset"}
                       => sent = erase /\ sent # << >>
                 /\ (pc = "done" /\ result.ok) => sent = erase
                 /\ erase = << >>
                       => /\ pc = "done"
                          /\ result.err = Err("NoEraseSupport")
                          /\ Last(Wire) = <<0, 255>>
            ELSE sent = << >>

\* both erase commands are offered and the extended erase has been sent and
\* acknowledged
C5_ExtendedPreferred ==
    /\ call = "flash" /\ pc = "wr_cmd"
    /\ Contains(GetCmds, 67) /\ Contains(GetCmds, 68)
    /\ AfterGet = ExtendedErase
    /\ lastIo = ByteIn(ACK)

----------------------------------------------------------------------------
(* flash_hex: the write loop *)

\* the address in an address frame
AddrOf(f) == f[1] * 16777216 + f[2] * 65536 + f[3] * 256 + f[4]

\* the write-memory commands issued so far, in order: each is [31 CE], the
\* address frame and the payload frame that follow it
WritesIn(w) ==
    LET at == SelectSeq([i \in 1..Len(w) |-> i],
                        LAMBDA i : w[i] = <<49, 206>> /\ i + 2 <= Len(w))
    IN  [k \in 1..Len(at) |->
            [addr |-> AddrOf(w[at[k] + 1]),
             l |-> w[at[k] + 2][1],
             data |-> SubSeq(w[at[k] + 2], 2, Len(w[at[k] + 2]) - 1)]]

Writes == WritesIn(Wire)

\* the bytes the writes ws put into the target, with their addresses
RECURSIVE Written(_)
Written(ws) ==
    IF ws = << >> THEN << >>
    ELSE [k \in 1..Len(ws[1].data) |-> Entry(ws[1].addr + k - 1, ws[1].data[k])]
         \o Written(Tail(ws))

\* the image of the call
Image == FileImage(opts.hex_path)

InImage(img, a) == \E i \in 1..Len(img) : img[i].addr = a

\* the write loop is over
WritesDone == pc \in {"go_cmd", "go_addr", "hwreset"} \/ (pc = "done" /\ result.ok)

\* C6: the write-memory commands carry the image in address order, every
\* byte at its own address and none twice (what has been written is a prefix
\* of the image, and the whole image when the loop is over); a chunk has 1 to
\* 256 bytes and its length byte is that number less one; a chunk shorter
\* than 256 bytes ends its block (the address after it is not in the image),
\* so within a block the destinations are base, base+256, base+512, ...
C6_ChunkedWrites ==
    call = "flash" =>
        LET ws == Writes
            img == Image
        IN  /\ IsPrefix(Written(ws), img)
            /\ \A k \in 1..Len(ws) :
                 /\ Len(ws[k].data) \in 1..256
                 /\ ws[k].l = Len(ws[k].data) - 1
                 /\ Len(ws[k].data) < 256
                       => ~InImage(img, ws[k].addr + Len(ws[k].data))
                 /\ (k > 1 /\ InImage(img, ws[k].addr - 1))
                       => /\ ws[k].addr = ws[k - 1].addr + 256
                          /\ Len(ws[k - 1].data) = 256
            /\ WritesDone => Written(ws) = img

\* 300 bytes of 0xAB at 0x08000000 were written: 256 bytes at 0x08000000
\* with length byte 0xFF, then 44 bytes at 0x08000100 with length byte 0x2B
C6_Image300Written ==
    /\ call = "flash" /\ pc = "done" /\ result.ok
    /\ Len(Writes) = 2
    /\ Writes[1] = [addr |-> 134217728, l |-> 255, data |-> [k \in 1..256 |-> 171]]
    /\ Writes[2] = [addr |-> 134217984, l |-> 43, data |-> [k \in 1..44 |-> 171]]

----------------------------------------------------------------------------
(* flash_hex: launch *)

\* what the answer o to a request means to the caller
ErrOfAnswer(o) ==
    CASE o.t = "byte" /\ o.b = 121 -> Ok
      [] o.t = "byte" /\ o.b = 31 -> Err("Nack")
      [] o.t = "byte" -> Unexpected(o.b)
      [] o.t = "timeout" -> Err("Timeout")
      [] OTHER -> Err("Io")

IsGoWarning(e) == e.op = "warn" /\ e.kind = "go_failed"

\* where an entry that satisfies Test first is in the log (0: nowhere)
FirstAt(Test(_)) ==
    IF \E i \in DOMAIN log : Test(log[i])
    THEN CHOOSE i \in DOMAIN log : Test(log[i]) /\ \A j \in 1..(i - 1) : ~Test(log[j])
    ELSE 0

IsStarting(e) == e.op = "info" /\ e.kind = "starting"

\* the GO request as it runs when the target acknowledges both frames
GoAcked == <<Tx("cmd", <<33, 222>>), Rx(121), Tx("addr", <<8, 0, 0, 0, 8>>), Rx(121)>>

ResetPulse == <<Line("rts", FALSE), Line("dtr", TRUE), Line("dtr", FALSE), Line("dtr", TRUE)>>

\* C7: with reset-after requested and GO supported, a go_command that
\* fails (whatever the error, on the command or on the address frame) makes
\* flash_hex log a warning with that error and run the hardware reset: RTS
\* low, DTR high, low, high, and nothing else on the port.  The call then
\* returns Ok when all four line writes succeeded and a Serial error
\* otherwise.  A go_command that does not fail logs no warning.
C7_GoFallback ==
    call = "flash" =>
        LET wi == FirstAt(IsGoWarning)
            si == FirstAt(IsStarting)
            tail == SubSeq(log, wi + 1, Len(log))
        IN  /\ wi > 0 =>
                 /\ opts.reset_after /\ Contains(GetCmds, 33)
                 /\ si > 0 /\ si < wi
                 /\ log[wi].e = ErrOfAnswer(lastIo) /\ log[wi].e # Ok
                 /\ IsPrefix(SelectSeq(tail, IsLine), ResetPulse)
                 /\ \A j \in 1..Len(tail) : ~IsTx(tail[j]) /\ ~IsRx(tail[j])
                 /\ pc \in {"hwreset", "done"}
                 /\ pc = "done" =>
                      /\ result.ok <=> SelectSeq(tail, IsLine) = ResetPulse
                      /\ ~result.ok => result.err = Err("Serial")
            /\ (si > 0 /\ pc \in {"hwreset", "done"}) =>
                 \/ wi > 0
                 \/ /\ si + 4 <= Len(log)
                    /\ SubSeq(log, si + 1, si + 4) = GoAcked
                    /\ pc = "done" /\ result.ok

\* the target answered the GO command with NACK; the call logged the
\* warning, pulsed the reset lines and returned Ok
C7_NackOnGoThenReset ==
    /\ call = "flash" /\ pc = "done" /\ result.ok
    /\ lastIo = ByteIn(NACK)
    /\ \E i \in DOMAIN log :
         /\ i + 6 <= Len(log)
         /\ log[i].op = "tx" /\ log[i].v = <<33, 222>>
         /\ log[i + 1] = Rx(31)
         /\ log[i + 2] = LogErr("warn", "go_failed", Err("Nack"))
         /\ SubSeq(log, i + 3, i + 6) = ResetPulse

\* the entries a step appends to the log
Appended == SubSeq(log', Len(log) + 1, Len(log'))

\* C8 as the code has it: go_command waits for an answer to each of its
\* two frames.  After the GO command frame [21 DE] and after the address
\* frame [08 00 00 00 08] it reads one byte; an ACK lets it go on (to the
\* address frame, then to a successful return, with nothing read after the
\* address ACK); any other answer, and no answer at all (Timeout), makes
\* go_command fail, which flash_hex answers with the warning and the
\* hardware reset.
C8_Step ==
    (call = "flash" /\ pc \in {"go_cmd", "go_addr"}) =>
        LET o == lastIo'
            e == ErrOfAnswer(o)
            f == IF pc = "go_cmd" THEN <<33, 222>> ELSE <<8, 0, 0, 0, 8>>
            new == Appended
            read == SelectSeq(new, IsRx)
        IN  /\ o.t # "wio" => IsTx(new[1]) /\ new[1].v = f
            /\ Len(SelectSeq(new, IsTx)) <= 1
            /\ read = IF o.t = "byte" THEN <<Rx(o.b)>> ELSE << >>
            /\ o.t = "byte" => new[2] = Rx(o.b)
            /\ e = Ok => /\ pc = "go_cmd" => pc' = "go_addr"
                         /\ pc = "go_addr" => pc' = "done" /\ result'.ok
            /\ e # Ok => /\ pc' = "hwreset"
                         /\ Last(new) = LogErr("warn", "go_failed", e)

\* C8 (as the code has it): every step of a call keeps to C8_Step.
C8_GoWaitsForAcks == [][C8_Step]_vars

\* C8 as stated: nothing is read after the GO command frame, and a target
\* that never answers does not make GO fail.
C8_GoDoesNotWait ==
    call = "flash" =>
        \A i \in DOMAIN log :
            (IsTx(log[i]) /\ log[i].v = <<33, 222>>)
                => \A j \in (i + 1)..Len(log) :
                      /\ ~IsRx(log[j])
                      /\ log[j] # LogErr("warn", "go_failed", Err("Timeout"))

\* the target did not answer the GO command: go_command has failed with
\* Timeout and the call is about to pulse the reset lines
C8_SilentTargetFailsGo ==
    /\ call = "flash" /\ pc = "hwreset"
    /\ lastIo = TimedOut
    /\ Len(log) >= 2
    /\ Last(log) = LogErr("warn", "go_failed", Err("Timeout"))
    /\ log[Len(log) - 1] = Tx("cmd", <<33, 222>>)

----------------------------------------------------------------------------
(* flash_hex: the order of the phases *)

IsIo(e) == e.op \in {"tx", "rx", "line"}

\* what passed on the port: frames, bytes read, control-line levels
Io == SelectSeq(log, IsIo)

\* what entry i of the port trace io is, told from its bytes and from the
\* frames before it
KindAt(io, i) ==
    LET v == io[i].v
        two == IF i > 2 THEN io[i - 2].v ELSE << >>
        four == IF i > 4 THEN io[i - 4].v ELSE << >>
    IN  CASE io[i].op = "rx" -> "rx"
          [] io[i].op = "line" ->
                IF \E j \in 1..(i - 1) : io[j].op = "tx" THEN "reset" ELSE "boot"
          [] v = <<127>> -> "sync"
          [] v = <<0, 255>> -> "get"
          [] v \in {<<67, 188>>, <<68, 187>>} -> "erase_cmd"
          [] v \in {<<255, 255, 0>>, <<255, 0>>} -> "erase_arg"
          [] v = <<49, 206>> -> "wr_cmd"
          [] v = <<33, 222>> -> "go_cmd"
          [] Len(v) = 5 /\ two = <<49, 206>> -> "wr_addr"
          [] Len(v) = 5 /\ two = <<33, 222>> -> "go_addr"
          [] Len(v) >= 3 /\ four = <<49, 206>> -> "wr_data"
          [] OTHER -> "stray"

\* the phase an entry belongs to (0: a byte read; 9: a frame that belongs
\* nowhere)
PhaseOf(kind) ==
    CASE kind = "rx" -> 0
      [] kind = "boot" -> 1
      [] kind = "sync" -> 2
      [] kind = "get" -> 3
      [] kind \in {"erase_cmd", "erase_arg"} -> 4
      [] kind \in {"wr_cmd", "wr_addr", "wr_data"} -> 5
      [] kind \in {"go_cmd", "go_addr", "reset"} -> 6
      [] OTHER -> 9

Count(ks, kind) == Cardinality({i \in DOMAIN ks : ks[i] = kind})

IsPhase(n) == n > 0

\* C3: flash_hex goes through boot entry, autobaud, GET, mass erase, the
\* write-memory chunks and the launch in that order and never back.  Every
\* frame but 0x7F follows the ACK of the one before it: GET follows the
\* autobaud ACK, the erase command the last byte of a whole GET reply, the
\* first write-memory command the erase ACK, and GO or the reset pulse the
\* ACK of the chunk that completes the image.  A successful call has opened
\* the port, made the whole boot entry, and sent GET, the erase command and
\* the erase argument exactly once, and, with reset-after, made exactly one
\* launch (GO acknowledged twice, or the four writes of the reset pulse).
C3_PhaseOrder ==
    call = "flash" =>
        LET io == Io
            ks == [i \in 1..Len(io) |-> KindAt(io, i)]
            ph == SelectSeq([i \in 1..Len(io) |-> PhaseOf(ks[i])], IsPhase)
            acked(i) == i > 2 /\ io[i - 1] = Rx(121)
            lines(kind) == SelectSeq([i \in 1..Len(io) |->
                                        IF ks[i] = kind THEN io[i] ELSE Rx(0)], IsLine)
            boot == lines("boot")
            reset == lines("reset")
            whole == Written(Writes) = Image
            reply == GetReply
        IN  /\ \A k \in 1..(Len(ph) - 1) : ph[k] <= ph[k + 1]
            /\ \A k \in 1..Len(ph) : ph[k] # 9
            /\ (io # << >> /\ pc # "done") => port = "open"
            /\ IsPrefix(boot, BootSeq(opts.boot_mode))
            /\ Count(ks, "sync") > 0 => boot = BootSeq(opts.boot_mode)
            /\ IsPrefix(reset, ResetPulse)
            /\ Count(ks, "get") <= 1
            /\ Count(ks, "erase_cmd") <= 1
            /\ Count(ks, "erase_arg") <= 1
            /\ Count(ks, "go_cmd") <= 1
            /\ Count(ks, "go_addr") <= 1
            /\ \A i \in 1..Len(io) :
                 /\ ks[i] \notin {"rx", "boot", "reset", "sync"} => acked(i)
                 /\ ks[i] = "get" => ks[i - 2] = "sync"
                 /\ ks[i] = "erase_cmd" =>
                      /\ WholeReply(reply)
                      /\ \E g \in 1..(i - 1) :
                           ks[g] = "get" /\ i = g + Len(reply) + 1
                 /\ ks[i] = "erase_arg" => ks[i - 2] = "erase_cmd"
                 /\ ks[i] = "wr_cmd" => ks[i - 2] \in {"erase_arg", "wr_data"}
                 /\ ks[i] = "go_cmd" => ks[i - 2] = "wr_data"
                 /\ ks[i] = "go_addr" => ks[i - 2] = "go_cmd"
                 /\ (ks[i] \in {"go_cmd", "reset"}) =>
                      /\ whole
                      /\ \E d \in 1..(i - 1) :
                           /\ ks[d] = "wr_data" /\ io[d + 1] = Rx(121)
                           /\ \A h \in (d + 1)..(i - 1) : PhaseOf(ks[h]) \in {0, 6}
            /\ (pc = "done" /\ result.ok) =>
                 /\ Count(ks, "get") = 1
                 /\ Count(ks, "erase_cmd") = 1
                 /\ Count(ks, "erase_arg") = 1
                 /\ whole
                 /\ Last(io) = Rx(121) \/ reset = ResetPulse
                 /\ IF opts.reset_after
                    THEN \/ Count(ks, "go_addr") = 1 /\ reset = << >>
                         \/ reset = ResetPulse
                    ELSE Count(ks, "go_cmd") = 0 /\ reset = << >>

\* a flash of the two-block image with boot entry and a launch by GO has
\* returned Ok: one GET, one erase, four chunks, one GO
C3_WholeFlash ==
    /\ call = "flash" /\ pc = "done" /\ result.ok
    /\ opts.boot_mode = "DtrLowRtsHigh" /\ opts.reset_after
    /\ Len(Writes) = 4
    /\ SubSeq(Io, Len(Io) - 3, Len(Io)) = GoAcked
    /\ Len(Syncs) = 2

----------------------------------------------------------------------------
(* flash_hex: errors *)

\* the steps of GET, of the mass erase and of the write loop
AckSteps == {"get_cmd", "get_ack", "erase_cmd", "erase_arg", "wr_cmd", "wr_addr", "wr_data"}
ByteSteps == {"get_n", "get_ver"}
BodySteps == {"get_body"}

\* the error, if any, that the port operation of a step at `at` raised when
\* it ended as o: a request and the closing ACK want an ACK, the count and
\* version bytes may be any byte, a poll of the reply body only fails on an
\* I/O error
ErrorAt(at, o) ==
    CASE at \in AckSteps -> ErrOfAnswer(o)
      [] at \in ByteSteps -> IF o.t = "byte" THEN Ok ELSE ErrOfAnswer(o)
      [] OTHER -> IF o.t = "rio" THEN Err("Io") ELSE Ok

\* C4: in GET, the mass erase and the write-memory chunks the first error
\* ends flash_hex at once.  The step in which the port operation fails is
\* the last one: the call returns that very error (Timeout, Nack,
\* UnexpectedResponse with the byte, Io), the port is dropped, the step wrote
\* no frame but the one that was not answered well and no control line, and
\* after the return nothing more happens on the port.  A step whose port
\* operation went well does not fail, except that a command set without an
\* erase command ends the call with NoEraseSupport.
C4_Step ==
    /\ (call = "flash" /\ pc \in AckSteps \cup ByteSteps \cup BodySteps) =>
          LET e == ErrorAt(pc, lastIo')
              new == Appended
          IN  /\ e # Ok =>
                   /\ pc' = "done"
                   /\ port' = "closed"
                   /\ result'.ret /\ ~result'.ok
                   /\ result'.err = e
                   /\ result'.error = <<e>>
                   /\ Len(new) <= 2
                   /\ Len(SelectSeq(new, IsTx)) <= 1
                   /\ (pc \notin {"get_cmd", "erase_cmd", "erase_arg",
                                  "wr_cmd", "wr_addr", "wr_data"})
                         => SelectSeq(new, IsTx) = << >>
                   /\ SelectSeq(new, IsLine) = << >>
              /\ (e = Ok /\ pc' = "done") =>
                   result'.ok \/ result'.err = Err("NoEraseSupport")
    /\ pc = "done" => log' = log /\ result' = result

\* C4: every step of a call keeps to C4_Step.
C4_FailFast == [][C4_Step]_vars

\* the command of the second chunk was answered with NACK: the call has
\* returned Nack, with reset-after requested and GO supported, and the last
\* thing on the port is that NACK
C4_SecondChunkNacked ==
    /\ call = "flash" /\ pc = "done"
    /\ result.err = Err("Nack")
    /\ opts.reset_after /\ Contains(GetCmds, 33)
    /\ Len(Writes) = 1
    /\ Len(Io) > 2
    /\ Last(Io) = Rx(31)
    /\ Io[Len(Io) - 1].v = <<49, 206>>

----------------------------------------------------------------------------
(* The GUI shell: the flashing guard *)

\* the invocations of flash_firmware that are inside flash_hex
InFlashHex == {i \in Invocations : shell.inv[i].pc = "flash_hex"}

IsRejected(v, msg) == v.pc = "returned" /\ v.ret = Rejected(msg)

\* one step of the shell, seen from invocation i: an invocation that starts
\* while the flag is set returns "Already flashing" at once, leaving the flag
\* and the events as they were, and an invocation that returned stays
\* returned (it never enters flash_hex afterwards)
C11_Step(i) ==
    LET v == shell.inv[i]
        w == shell'.inv[i]
    IN  /\ (v.pc = "idle" /\ w.pc # "idle" /\ shell.is_flashing) =>
              /\ IsRejected(w, "Already flashing")
              /\ shell'.is_flashing = shell.is_flashing
              /\ shell'.events = shell.events
        /\ (v.pc = "idle" /\ w.pc # "idle" /\ ~shell.is_flashing) =>
              /\ w.pc = "parse"
              /\ shell'.is_flashing
        /\ IsRejected(w, "Already flashing") =>
              v.pc = "idle" \/ v = w
        /\ v.pc = "returned" => w = v
        /\ w.pc = "flash_hex" => v.pc \in {"parse", "flash_hex"}

\* C11: at any time at most one flash_firmware invocation is inside
\* flash_hex, and it got there with the flag set by itself; an invocation
\* that finds is_flashing set returns "Already flashing" without calling
\* flash_hex and without changing the flag.
C11_OneFlashAtATime ==
    /\ [](Cardinality(InFlashHex) <= 1)
    /\ [](InFlashHex # {} => shell.is_flashing)
    /\ [][\A i \in Invocations : C11_Step(i)]_vars

\* one invocation is inside flash_hex and another was rejected meanwhile
C11_RejectedWhileFlashing ==
    \E i, j \in Invocations :
        /\ shell.inv[i].pc = "flash_hex"
        /\ IsRejected(shell.inv[j], "Already flashing")
        /\ shell.is_flashing

----------------------------------------------------------------------------
(* The frame codec: expect_ack *)

\* C12: expect_ack returns success when the byte read is 0x79, Nack when it
\* is 0x1F, UnexpectedResponse carrying that byte for every other byte and
\* Timeout when no byte arrives; a call that gets a byte takes exactly that
\* one byte from the port and leaves what follows it, a call that gets none
\* takes nothing.
C12_ExpectAck ==
    calc.fn = "expect_ack" =>
        LET q == calc.in.queue
            r == calc.out.r
        IN  IF calc.in.fails
            THEN r.kind = "Io" /\ calc.out.rest = q
            ELSE IF q = << >>
            THEN r.kind = "Timeout" /\ calc.out.rest = q
            ELSE /\ Len(calc.out.rest) = Len(q) - 1
                 /\ \A i \in 1..Len(calc.out.rest) : calc.out.rest[i] = q[i + 1]
                 /\ q[1] = 121 => r.kind = "Ok"
                 /\ q[1] = 31 => r.kind = "Nack"
                 /\ q[1] \notin {121, 31} =>
                        r.kind = "UnexpectedResponse" /\ r.byte = q[1]

\* expect_ack read 0x7F, an ACK waiting behind it: it returned
\* UnexpectedResponse(0x7F) and the ACK is still to be read
C12_UnexpectedByteRead ==
    /\ calc.fn = "expect_ack"
    /\ calc.in = [queue |-> <<127, 121>>, fails |-> FALSE]
    /\ calc.out.r = [kind |-> "UnexpectedResponse", byte |-> 127]
    /\ calc.out.rest = <<121>>

----------------------------------------------------------------------------
(* The frame codec: the frames written *)

RECURSIVE XorOf(_, _)
\* exclusive or of two naturals, digit by digit
XorOf(a, b) ==
    IF a = 0 /\ b = 0 THEN 0
    ELSE ((a + b) % 2) + (2 * XorOf(a \div 2, b \div 2))

RECURSIVE XorAll(_)
\* exclusive or of all the bytes of a sequence, by halves
XorAll(s) ==
    IF Len(s) = 0 THEN 0
    ELSE IF Len(s) = 1 THEN s[1]
    ELSE LET h == Len(s) \div 2
         IN  XorOf(XorAll(SubSeq(s, 1, h)), XorAll(SubSeq(s, h + 1, Len(s))))

IsByte(b) == b \in 0..255

\* [c, c XOR 0xFF]: the second byte has exactly the bits the first has not
IsCmdFrame(f, c) == f = <<c, 255 - c>>

\* the four bytes of the address, most significant first, and their XOR
IsAddrFrame(f, a) ==
    /\ Len(f) = 5
    /\ \A i \in 1..5 : IsByte(f[i])
    /\ ((f[1] * 256 + f[2]) * 256 + f[3]) * 256 + f[4] = a
    /\ f[5] = XorAll(SubSeq(f, 1, 4))

\* |D|-1 as one byte, D, and the XOR of the length byte and of D
IsDataFrame(f, data) ==
    /\ Len(f) = Len(data) + 2
    /\ f[1] = Len(data) - 1
    /\ IsByte(f[1])
    /\ SubSeq(f, 2, Len(f) - 1) = data
    /\ Last(f) = XorAll(SubSeq(f, 1, Len(f) - 1))
    /\ XorAll(f) = 0

\* C13: every command frame written is [c, c XOR 0xFF]; every address frame
\* is the four bytes of the address, most significant first, followed by
\* their XOR; every payload frame for a payload of 1..256 bytes is the byte
\* |D|-1 (0xFF for 256 bytes), the payload, and the XOR of that length byte
\* and the payload; write_memory writes nothing for any other payload size.
C13_FramesWellFormed ==
    /\ calc.fn = "send_cmd" =>
          Len(calc.out) = 1 /\ IsCmdFrame(calc.out[1], calc.in)
    /\ calc.fn = "send_address" =>
          Len(calc.out) = 1 /\ IsAddrFrame(calc.out[1], calc.in)
    /\ calc.fn = "write_memory" =>
          IF Len(calc.in.data) \in 1..256
          THEN /\ Len(calc.out) = 3
               /\ calc.out[1] = <<49, 206>>
               /\ IsAddrFrame(calc.out[2], calc.in.address)
               /\ IsDataFrame(calc.out[3], calc.in.data)
               /\ Len(calc.in.data) = 256 => calc.out[3][1] = 255
          ELSE calc.out = << >>

\* write_memory wrote a payload of 256 bytes, the largest, to 0x08000100
C13_FullPayloadWritten ==
    /\ calc.fn = "write_memory"
    /\ Len(calc.in.data) = 256
    /\ calc.in.address = 134217984
    /\ calc.in.data[1] = 178
    /\ Len(calc.out) = 3
    /\ calc.out[2] = <<8, 0, 1, 0, 9>>
    /\ Len(calc.out[3]) = 258
    /\ calc.out[3][1] = 255

----------------------------------------------------------------------------
(* image_to_blocks *)

RECURSIVE Expanded(_)
\* the entries (base + i, data[i]) of the blocks, block after block
Expanded(blocks) ==
    IF blocks = << >> THEN << >>
    ELSE LET b == Head(blocks)
         IN  [i \in 1..Len(b.data) |-> Entry(b.base + i - 1, b.data[i])]
             \o Expanded(Tail(blocks))

\* C14: for every image the blocks image_to_blocks returns have strictly
\* ascending base addresses, expand to exactly the entries of the image, are
\* never empty, and leave at least one address out between one block and the
\* next (the next base is greater than the previous last address plus one);
\* an empty image gives no block.
C14_BlocksPartitionImage ==
    (calc.fn = "image_to_blocks" /\ pc = "open") =>
        LET blocks == sess.blocks
        IN  /\ Expanded(blocks) = calc.in
            /\ sess.total = Len(calc.in)
            /\ \A k \in 1..Len(blocks) : Len(blocks[k].data) >= 1
            /\ \A k \in 1..(Len(blocks) - 1) :
                  /\ blocks[k].base < blocks[k + 1].base
                  /\ blocks[k + 1].base
                        > (blocks[k].base + Len(blocks[k].data) - 1) + 1
            /\ calc.in = << >> => blocks = << >>

\* the image 0x08000000, 0x08000001, 0x08000003, 0x08000005 was split into
\* blocks of two bytes, one byte and one byte
C14_ThreeBlocks ==
    /\ calc.fn = "image_to_blocks" /\ pc = "open"
    /\ Len(calc.in) = 4
    /\ Len(sess.blocks) = 3
    /\ sess.blocks[1] = [base |-> 134217728, data |-> <<3, 10>>]
    /\ sess.blocks[2].base = 134217731
    /\ sess.blocks[3].base = 134217733

----------------------------------------------------------------------------
(* parse_hex_to_image *)

MaxOf(S) == CHOOSE x \in S : \A y \in S : y <= x

\* what the lines of a text that are not blank spell, in file order
Spelled(text) ==
    LET lines == SelectSeq(text, LAMBDA l : ~l.blank)
    IN  [k \in 1..Len(lines) |-> from_record_string(lines[k])]

IsEof(d) == d.err = Ok /\ d.rec.type = "EndOfFile"
IsData(d) == d.err = Ok /\ d.rec.type = "Data"
IsUpper(d) == d.err = Ok /\ d.rec.type = "ExtendedLinearAddress"

\* the part of a text up to, not including, its first End Of File record
Effective(text) ==
    LET d == Spelled(text)
        S == {k \in 1..Len(d) : IsEof(d[k])}
    IN  IF S = {} THEN d
        ELSE SubSeq(d, 1, (CHOOSE k \in S : \A j \in S : k <= j) - 1)

Malformed(e) == \E k \in 1..Len(e) : e[k].err # Ok

\* the upper 16 bits in force at record k: those of the most recent
\* Extended Linear Address record before it, 0 if there is none
UpperAt(e, k) ==
    LET S == {j \in 1..(k - 1) : IsUpper(e[j])}
    IN  IF S = {} THEN 0 ELSE e[MaxOf(S)].rec.hi

FirstAddr(e, k) == UpperAt(e, k) * 65536 + e[k].rec.offset

\* the data records that cover address a
Covering(e, a) ==
    {k \in 1..Len(e) : /\ IsData(e[k])
                       /\ FirstAddr(e, k) <= a
                       /\ a < FirstAddr(e, k) + Len(e[k].rec.value)}

Covered(e) ==
    UNION {FirstAddr(e, k)..(FirstAddr(e, k) + Len(e[k].rec.value) - 1) :
              k \in {j \in 1..Len(e) : IsData(e[j])}}

\* the image holds exactly the covered addresses, in ascending order, each
\* with the byte of the latest record that covers it
HoldsLatest(image, e) ==
    /\ {image[i].addr : i \in 1..Len(image)} = Covered(e)
    /\ \A i \in 1..(Len(image) - 1) : image[i].addr < image[i + 1].addr
    /\ \A i \in 1..Len(image) :
          LET a == image[i].addr
              k == MaxOf(Covering(e, a))
          IN  image[i].b = e[k].rec.value[a - FirstAddr(e, k) + 1]

ParseDone == calc.fn = "parse_hex_to_image" /\ calc.out # None

\* C15: for every text without a malformed record before its first End Of
\* File record, each data record stores its bytes from (upper << 16) | offset
\* on, upper being the value of the most recent Extended Linear Address
\* record before it (0 if none); an address covered by several data records
\* holds the byte of the latest of them; records after the first End Of
\* File record contribute nothing; the text of scenario E gives 0x12, 0x34,
\* 0x56, 0x78 at 0x08010000..0x08010003.
C15_HexDecoding ==
    ParseDone =>
        LET e == Effective(calc.in)
            r == calc.out[1]
        IN  /\ (~Malformed(e) /\ Covered(e) # {}) =>
                  r.err = Ok /\ HoldsLatest(r.image, e)
            /\ r.err = Ok => ~Malformed(e) /\ Covered(e) # {}
            /\ calc.in = ScenarioE =>
                  r = [err |-> Ok,
                       image |-> <<Entry(134283264, 18), Entry(134283265, 52),
                                   Entry(134283266, 86), Entry(134283267, 120)>>]

\* upper 0x0801, two bytes at offset 0, then one byte at offset 1 again: the
\* later byte is the one in the image
C15_LaterRecordWins ==
    /\ ParseDone
    /\ Len(calc.in) = 3
    /\ Len(Effective(calc.in)) = 3
    /\ calc.out[1] = [err |-> Ok,
                      image |-> <<Entry(134283264, 18), Entry(134283265, 86)>>]

\* one pass of the loop over a line that is blank or spells a record of
\* another type leaves the image, the upper address and the error alone
C16_Step ==
    (/\ calc.fn = "parse_hex_to_image"
     /\ calc.out = None
     /\ calc' # calc
     /\ calc.k <= Len(calc.in) /\ calc.st.err = Ok /\ ~calc.st.eof
     /\ LET d == from_record_string(calc.in[calc.k])
        IN  \/ calc.in[calc.k].blank
            \/ d.err = Ok /\ d.rec.type \notin {"Data", "ExtendedLinearAddress",
                                                "EndOfFile"})
    => /\ calc'.st = calc.st
       /\ calc'.out = None
       /\ calc'.k = calc.k + 1

\* C16: records of other types than data, extended linear address and end
\* of file change neither the image nor the upper address and cause no
\* error; a text whose processing stores no byte fails with HexFileEmpty;
\* a malformed record before the first End Of File record fails the parse
\* with Hex whatever came before it, and nothing else does.
C16_IgnoredEmptyMalformed ==
    /\ [][C16_Step]_vars
    /\ [](ParseDone =>
            LET e == Effective(calc.in)
                r == calc.out[1]
            IN  /\ r.err = Err("Hex") <=> Malformed(e)
                /\ r.err = Err("HexFileEmpty") <=> (~Malformed(e) /\ Covered(e) = {})
                /\ r.err \in {Ok, Err("Hex"), Err("HexFileEmpty")}
                /\ r.err # Ok => r.image = << >>)

\* a data record was stored, then a line with a wrong checksum was met before
\* the End Of File record: the parse failed with Hex
C16_ValidThenMalformed ==
    /\ ParseDone
    /\ Len(calc.in) = 3
    /\ calc.in[2] = BadLine
    /\ IsEof(from_record_string(calc.in[3]))
    /\ Len(calc.st.image) = 2
    /\ calc.out[1].err = Err("Hex")

----------------------------------------------------------------------------
(* flash_hex: progress *)

IsProgress(e) == e.op = "info" /\ e.kind = "PROGRESS"
IsPayload(e) == e.op = "tx" /\ Len(e.v) >= 3 /\ e.kind = "data"

\* C17: in the log a PROGRESS message stands directly after the ACK of each
\* payload frame of write_memory and nowhere else; its <written> is the
\* <written> of the message before it (0 for the first) plus the number of
\* payload bytes of that frame, so the values grow strictly; <written> never
\* exceeds <total>; <total> is the number of bytes of the image in every
\* message; when the write loop is over the last message has
\* <written> = <total>.
C17_ProgressPerChunk ==
    call = "flash" =>
        LET lg == log
            at == SelectSeq([i \in 1..Len(lg) |-> i], LAMBDA i : IsProgress(lg[i]))
            total == Len(Image)
        IN  /\ \A i \in 1..Len(lg) :
                  IsProgress(lg[i]) <=>
                      (i > 2 /\ lg[i - 1] = Rx(121) /\ IsPayload(lg[i - 2]))
            /\ \A k \in 1..Len(at) :
                  LET e == lg[at[k]]
                      before == IF k = 1 THEN 0 ELSE lg[at[k - 1]].v[1]
                  IN  /\ e.v[1] = before + (Len(lg[at[k] - 2].v) - 2)
                      /\ e.v[1] > before
                      /\ e.v[1] <= e.v[2]
                      /\ e.v[2] = total
            /\ (WritesDone \/ (pc = "done" /\ result.ok)) =>
                  Len(at) >= 1 /\ lg[at[Len(at)]].v[1] = total

\* the image of 513 + 256 bytes was written in four chunks: the messages
\* report 256, 512, 513 and 769 of 769
C17_FourMessages ==
    /\ call = "flash" /\ pc = "done" /\ result.ok
    /\ opts.hex_path = "two"
    /\ LET p == SelectSeq(log, IsProgress)
       IN  /\ Len(p) = 4
           /\ p[1].v = <<256, 769>>
           /\ p[2].v[1] = 512
           /\ p[3].v[1] = 513
           /\ p[4].v = <<769, 769>>

----------------------------------------------------------------------------
(* write_memory: the order of its stages *)

\* the frame written last before entry i of the port trace, 0 if none
PrevTx(io, i) ==
    LET S == {j \in 1..(i - 1) : io[j].op = "tx"}
    IN  IF S = {} THEN 0 ELSE MaxOf(S)

IsWrCmd(io, i) == io[i].op = "tx" /\ io[i].v = <<49, 206>>

\* the frame that follows a [31 CE] frame is the address frame, the frame
\* that follows the address frame is the payload frame
IsWrAddr(io, i) ==
    /\ io[i].op = "tx"
    /\ PrevTx(io, i) > 0
    /\ IsWrCmd(io, PrevTx(io, i))

IsWrData(io, i) ==
    /\ io[i].op = "tx"
    /\ PrevTx(io, i) > 0
    /\ IsWrAddr(io, PrevTx(io, i))

\* the stage whose frame is entry i was the end of the call: nothing is
\* after its answer, and the call returned what the answer means
EndsCall(io, i) ==
    /\ pc = "done"
    /\ ~result.ok
    /\ IF i = Len(io)
       THEN result.err \in {Err("Timeout"), Err("Io")}
       ELSE /\ Len(io) = i + 1
            /\ io[i + 1].op = "rx"
            /\ io[i + 1].v # <<121>>
            /\ result.err = ErrOfAnswer(ByteIn(io[i + 1].v[1]))
            /\ lastIo \in {ByteIn(io[i + 1].v[1]), FlushIo}

\* C20: in the port trace of flash_hex the address frame of a write_memory
\* stands directly after the ACK of its [31 CE] frame and the payload frame
\* directly after the ACK of its address frame; a first or second stage that
\* is answered by NACK, by another byte that is not ACK, or by nothing ends
\* the call with that error, and no frame is written after it (after an ACK
\* the next frame follows unless its write fails).
C20_StagesInOrder ==
    call = "flash" =>
        LET io == Io
        IN  \A i \in 1..Len(io) :
               /\ IsWrAddr(io, i) =>
                     /\ Len(io[i].v) = 5
                     /\ io[i - 1] = Rx(121)
                     /\ IsWrCmd(io, i - 2)
               /\ IsWrData(io, i) =>
                     /\ Len(io[i].v) \in 3..258
                     /\ io[i - 1] = Rx(121)
                     /\ IsWrAddr(io, i - 2)
               /\ (IsWrCmd(io, i) \/ IsWrAddr(io, i)) =>
                     \/ /\ i + 2 <= Len(io)
                        /\ io[i + 1] = Rx(121)
                        /\ io[i + 2].op = "tx"
                     \/ /\ i + 1 = Len(io)
                        /\ io[i + 1] = Rx(121)
                        /\ \/ pc = IF IsWrCmd(io, i) THEN "wr_addr" ELSE "wr_data"
                           \/ /\ pc = "done" /\ lastIo = WriteIo
                              /\ result.err = Err("Io")
                     \/ EndsCall(io, i)

\* the address frame of the second chunk was answered by NACK: the call
\* returned Nack and the payload of that chunk was never written
C20_AddressNacked ==
    /\ call = "flash" /\ pc = "done"
    /\ result.err = Err("Nack")
    /\ Len(Writes) = 1
    /\ LET io == Io
       IN  /\ Len(io) > 4
           /\ Last(io) = Rx(31)
           /\ IsWrAddr(io, Len(io) - 1)
           /\ io[Len(io) - 2] = Rx(121)
           /\ io[Len(io) - 3].v = <<49, 206>>

----------------------------------------------------------------------------
(* The GUI shell: the flash-done event *)

\* the events invocation i has emitted, in order
EventsOf(i) == SelectSeq(shell.events, LAMBDA e : e.by = i)

Succeeded(v) ==
    v.pc = "returned" /\ v.ret[1].ok /\ v.ret[1].result[1].ok

\* C19: every flash_firmware invocation that has returned has emitted
\* exactly one flash-done event, with ok=true if it succeeded and ok=false
\* if it did not, and nothing after it.
C19_EveryReturnEmitsDone ==
    \A i \in Invocations :
        shell.inv[i].pc = "returned" =>
            /\ Len(EventsOf(i)) = 1
            /\ EventsOf(i)[1].name = "flash-done"
            /\ EventsOf(i)[1].ok = Succeeded(shell.inv[i])

\* C19, for the invocations that got as far as flash_hex: an invocation
\* emits nothing before flash_hex has returned and the flag is cleared, and
\* an invocation that returns Ok(FlashResult) has emitted exactly one
\* flash-done event, whose ok is the ok of the result; an invocation that
\* returns Err(String) has emitted none.
C19_CompletedEmitsDone ==
    \A i \in Invocations :
        LET v == shell.inv[i]
        IN  /\ v.pc # "returned" => EventsOf(i) = << >>
            /\ (v.pc = "returned" /\ v.ret[1].ok) =>
                  EventsOf(i) = <<FlashDone(i, v.ret[1].result[1].error)>>
            /\ (v.pc = "returned" /\ ~v.ret[1].ok) => EventsOf(i) = << >>

\* an invocation with a boot-mode string parse_boot_mode does not know has
\* returned Err("Unknown boot mode") and no event was emitted at all
C19_UnknownModeNoEvent ==
    \E i \in Invocations :
        /\ IsRejected(shell.inv[i], "Unknown boot mode")
        /\ shell.events = << >>
        /\ shell.is_flashing

----------------------------------------------------------------------------
(* identify: idempotence *)

\* the second of two identify calls has returned
SecondReturned == call = "identify" /\ prev.calls = 1 /\ pc = "done"

----------------------------------------------------------------------------
(* The port of a call *)

\* where a call stands before open_port has run or after it has returned
OutsidePort == {"idle", "parse", "blocks", "open", "done"}

\* C21: identify and flash_hex hold the port only between their open_port
\* and their return: a call that has returned, with success or with any
\* error of any phase, holds no port, so the open_port of the next call on
\* that port is not refused on its account.
C21_PortReleased ==
    /\ pc = "done" => port = "closed"
    /\ port = "open" => pc \notin OutsidePort
    /\ pc = "done" /\ result.err = Err("PortNotFound") => opts.port_name = "absent"

\* flash_hex failed in the write loop, with frames on the wire, and has
\* let go of the port
C21_FailedWhileWriting ==
    /\ call = "flash" /\ pc = "done"
    /\ result.ret /\ ~result.ok
    /\ \E i \in DOMAIN log : log[i].op = "tx" /\ log[i].kind = "data"
    /\ port = "closed"

----------------------------------------------------------------------------
(* The HEX file comes first *)

\* what parse_hex_to_image makes of the file of the call
Parsed == parse_hex_to_image(opts.hex_path)

\* the image and the blocks of the call are there: the "loaded" line
IsLoaded(e) == e.op = "info" /\ e.kind = "loaded"

\* C22: flash_hex reads and parses the HEX file and builds the blocks before
\* it opens the port.  When the file cannot be read (HexFileNotFound, Io),
\* has a malformed record (Hex) or holds no data (HexFileEmpty), flash_hex
\* returns exactly that error and the port was never opened, no DTR/RTS level
\* written and no byte transmitted or read; and in every run the port is
\* opened only after "loaded" was logged, with the blocks of the parsed image.
C22_ParseBeforePort ==
    call = "flash" =>
        /\ Parsed.err # Ok =>
              /\ port = "closed"
              /\ log = << >>
              /\ pc \in {"parse", "done"}
              /\ pc = "done" => result = FlashResult(Parsed.err)
        /\ pc \in {"parse", "blocks"} => port = "closed" /\ Io = << >>
        /\ Io # << >> \/ port = "open" =>
              /\ Parsed.err = Ok
              /\ log # << >> /\ IsLoaded(log[1])
              /\ sess.total = Len(Parsed.image)
        /\ pc = "done" /\ result.err \in {Err("HexFileNotFound"), Err("Hex"), Err("HexFileEmpty")}
              => Parsed.err = result.err

\* a file with a record whose checksum is wrong: flash_hex returned Hex and
\* nothing happened on the port
C22_MalformedFileRejected ==
    /\ call = "flash" /\ pc = "done"
    /\ opts.hex_path = "malformed" /\ opts.port_name = "present"
    /\ result = FlashResult(Err("Hex"))
    /\ port = "closed" /\ log = << >>

----------------------------------------------------------------------------
(* flash_hex: the launch step *)

\* the PROGRESS line of the last chunk: everything is written
IsLastProgress(e) == e.op = "info" /\ e.kind = "PROGRESS" /\ e.v[1] = e.v[2]

IsGoIo(e) == e.op \in {"tx", "rx"}

\* C23: what flash_hex does on the port after the last write-memory ACK.
\* reset_after false: nothing, the call returns Ok.  reset_after true and
\* 0x21 in the GET command list: the GO command frame is written (a frame
\* whose write_all fails leaves no trace but the warning) and after its ACK
\* the address frame of 0x08000000; DTR/RTS are written only when GO failed,
\* after the warning, and then as the reset sequence RTS low, DTR high, low,
\* high.  reset_after true without 0x21: no frame at all, only the reset
\* sequence.  The call returns Ok when GO was acknowledged twice or the
\* four line writes were made, and Serial when a line write failed.
C23_LaunchStep ==
    call = "flash" =>
        LET at == FirstAt(IsLastProgress)
            tail == SubSeq(log, at + 1, Len(log))
            io == SelectSeq(tail, IsIo)
            go == SelectSeq(tail, IsGoIo)
            lines == SelectSeq(tail, IsLine)
            warned == \E i \in DOMAIN tail : IsGoWarning(tail[i])
            supported == Contains(GetCmds, CMD_GO)
        IN  at > 0 =>
              /\ log[at - 1] = Rx(ACK)
              /\ io = go \o lines
              /\ IsPrefix(lines, ResetPulse)
              /\ ~opts.reset_after =>
                    /\ io = << >>
                    /\ pc = "done" /\ result.ok
              /\ opts.reset_after /\ supported =>
                    /\ Len(go) <= 4
                    /\ \A i \in DOMAIN go :
                          /\ i \in {1, 3} => go[i] = GoAcked[i]
                          /\ i \in {2, 4} => IsRx(go[i])
                          /\ i = 3 => go[2] = Rx(ACK)
                    /\ pc = "go_cmd" <=> (go = << >> /\ ~warned)
                    /\ pc = "go_addr" => go = SubSeq(GoAcked, 1, 2)
                    /\ lines # << >> => warned /\ go # GoAcked
                    /\ warned <=> (pc \in {"hwreset", "done"} /\ go # GoAcked)
                    /\ pc = "done" =>
                          /\ result.ok <=> (go = GoAcked \/ lines = ResetPulse)
                          /\ ~result.ok => result.err = Err("Serial")
              /\ opts.reset_after /\ ~supported =>
                    /\ go = << >> /\ ~warned
                    /\ pc \in {"hwreset", "done"}
                    /\ pc = "done" =>
                          /\ result.ok <=> lines = ResetPulse
                          /\ ~result.ok => result.err = Err("Serial")

\* reset-after with a target that does not list GO: no GO frame, the reset
\* lines pulsed, Ok returned
C23_ResetWithoutGo ==
    /\ call = "flash" /\ pc = "done" /\ result.ok
    /\ opts.reset_after
    /\ ~Contains(GetCmds, CMD_GO)
    /\ \A i \in DOMAIN log : ~(IsTx(log[i]) /\ log[i].v = <<33, 222>>)
    /\ Len(log) >= 6
    /\ SubSeq(log, Len(log) - 4, Len(log) - 1) = ResetPulse
    /\ IsLastProgress(log[Len(log) - 6])

----------------------------------------------------------------------------
(* apply_boot_mode *)

\* what the name of a BootMode variant says: the line that carries the reset
\* pulse and its active level, and the line and level of BOOT0 when the name
\* has one (Low is FALSE, High is TRUE)
Named(mode) ==
    CASE mode = "DtrLowRtsHigh" -> [reset |-> "dtr", active |-> 0, boot0 |-> <<"rts", 1>>]
      [] mode = "DtrHighRtsHigh" -> [reset |-> "dtr", active |-> 1, boot0 |-> <<"rts", 1>>]
      [] mode = "DtrHighRtsLow" -> [reset |-> "dtr", active |-> 1, boot0 |-> <<"rts", 0>>]
      [] mode = "DtrHighOnly" -> [reset |-> "dtr", active |-> 1, boot0 |-> << >>]
      [] mode = "RtsLowDtrHigh" -> [reset |-> "rts", active |-> 0, boot0 |-> <<"dtr", 1>>]
      [] mode = "RtsLowDtrLow" -> [reset |-> "rts", active |-> 0, boot0 |-> <<"dtr", 0>>]
      [] mode = "RtsLowOnly" -> [reset |-> "rts", active |-> 0, boot0 |-> << >>]
      [] OTHER -> [reset |-> "rts", active |-> 1, boot0 |-> << >>]

\* the levels written to a control line, in order
LevelsOf(lines, name) ==
    LET on == SelectSeq(lines, LAMBDA e : e.kind = name)
    IN  [i \in 1..Len(on) |-> on[i].v[1]]

\* apply_boot_mode has returned Ok
BootEntered ==
    \/ pc \in {"sync", "get_cmd"}
    \/ pc = "done" /\ result.err \notin {Err("Serial"), Err("PortNotFound")}

\* C24: apply_boot_mode writes no control line for None.  For each other
\* variant it writes the reset line of the variant's name three times:
\* inactive, active (the level of the name), inactive; a BOOT0 line, when
\* the name has one, is written for the last time before the reset line goes
\* active, with the level of the name; a line the name does not mention is
\* never written.  A line write that fails ends the call with Serial after a
\* prefix of these writes.
C24_BootEntry ==
    LET lines == SelectSeq(log, IsLine)
        mode == opts.boot_mode
        n == Named(mode)
        pulse == <<1 - n.active, n.active, 1 - n.active>>
        other == IF n.reset = "dtr" THEN "rts" ELSE "dtr"
        \* position in lines of the write that makes the reset line active
        activeAt == IF \E i \in DOMAIN lines : lines[i] = Line(n.reset, n.active = 1)
                    THEN CHOOSE i \in DOMAIN lines : lines[i] = Line(n.reset, n.active = 1)
                    ELSE 0
        boot0At == {i \in DOMAIN lines : lines[i].kind = other}
    IN  /\ mode = "None" => lines = << >>
        /\ mode # "None" =>
              /\ IsPrefix(LevelsOf(lines, n.reset), pulse)
              /\ BootEntered => LevelsOf(lines, n.reset) = pulse
              /\ n.boot0 = << >> => boot0At = {}
              /\ n.boot0 # << >> =>
                    /\ activeAt > 0 =>
                          /\ boot0At # {}
                          /\ \A i \in boot0At : i < activeAt
                          /\ Last(LevelsOf(lines, other)) = n.boot0[2]
                    /\ BootEntered => activeAt > 0
              /\ pc = "done" /\ result.err = Err("Serial") /\ opts.port_name = "present"
                    => LevelsOf(lines, n.reset) # pulse
        /\ BootEntered => port = "open" \/ pc = "done"

\* RtsLowDtrLow: DTR was set low, then RTS pulsed high, low, high
C24_RtsLowDtrLowEntered ==
    /\ opts.boot_mode = "RtsLowDtrLow"
    /\ pc = "sync"
    /\ SelectSeq(log, IsLine) = <<Rts(TRUE), Dtr(FALSE), Rts(FALSE), Rts(TRUE)>>

----------------------------------------------------------------------------
(* get_id *)

\* what get_id returned
GetIdResult == calc.out[1]

\* C25: after the ACK of the GET ID command get_id reads a count byte N,
\* then N+1 body bytes, then one byte that must be ACK, and nothing more.
\* With the whole reply read and acknowledged it returns the two body bytes
\* as a big-endian u16 when N = 1, the one body byte as a u16 when N = 0, and
\* UnexpectedResponse(0x00) for every N >= 2; it returns a product ID in no
\* other case.  identify reports the product ID, and none when get_id failed.
C25_GetIdParsing ==
    call = "identify" =>
        LET r == IdReply
        IN  /\ Len(r) >= 1 /\ r[1] # ACK => Len(r) = 1
            /\ Len(r) >= 2 /\ r[1] = ACK => Len(r) <= r[2] + 4
            /\ pc = "id_n" => r = <<ACK>>
            /\ pc = "id_body" => Len(r) >= 2 /\ Len(r) < r[2] + 3
            /\ pc = "id_ack" => Len(r) = r[2] + 3
            /\ pc # "done" => calc.fn # "get_id"
            /\ pc = "done" /\ WholeReply(r) =>
                  LET n == r[2]
                      body == SubSeq(r, 3, n + 3)
                  IN  /\ calc.fn = "get_id"
                      /\ Len(body) = n + 1
                      /\ n = 1 =>
                            /\ GetIdResult = [err |-> Ok, pid |-> body[1] * 256 + body[2]]
                            /\ result.pid = Some(body[1] * 256 + body[2])
                      /\ n = 0 =>
                            /\ GetIdResult = [err |-> Ok, pid |-> body[1]]
                            /\ result.pid = Some(body[1])
                      /\ n >= 2 =>
                            /\ GetIdResult = [err |-> Unexpected(0), pid |-> 0]
                            /\ result.pid = None
            /\ calc.fn = "get_id" /\ GetIdResult.err = Ok =>
                  WholeReply(r) /\ r[2] \in {0, 1}

\* the peer answered GET ID with N = 2 and three body bytes and the ACK:
\* get_id failed with UnexpectedResponse(0x00) with all six bytes read
C25_ThreeBodyBytes ==
    /\ call = "identify" /\ pc = "done"
    /\ IdReply = <<121, 2, 4, 16, 4, 121>>
    /\ lastIo = ByteIn(ACK)
    /\ calc.fn = "get_id"
    /\ GetIdResult.err = Unexpected(0)
    /\ result.ok /\ result.pid = None

----------------------------------------------------------------------------
(* The GUI shell: releasing the guard *)

\* the invocations of flash_firmware that have started and not returned
InProgress == {i \in Invocations : shell.inv[i].pc \notin {"idle", "returned"}}

\* C26: whenever no flash_firmware invocation is in progress is_flashing is
\* false: every way out of flash_firmware after the flag was set clears it.
C26_FlagClearWhenIdle == InProgress = {} => ~shell.is_flashing

\* an invocation left through the unknown boot mode with the flag set, and
\* the next one, made with nothing running, was turned away
C26_RejectedWithNothingRunning ==
    \E i, j \in Invocations :
        /\ IsRejected(shell.inv[i], "Unknown boot mode")
        /\ IsRejected(shell.inv[j], "Already flashing")
        /\ InProgress = {}
        /\ shell.is_flashing

----------------------------------------------------------------------------
(* The handshake: all five attempts fail *)

\* five attempts were made and none was answered with ACK
NoAttemptAcked == Len(hist) = 5 /\ \A i \in 1..5 : hist[i] # ByteIn(ACK)

\* C27: when five autobaud attempts were made and none was acknowledged, the
\* call has returned the error of the fifth attempt: Timeout when nothing
\* came, Nack, UnexpectedResponse with the byte that came, Io when the read
\* or the write failed, whatever the earlier attempts ended with; the port
\* is dropped and no frame but the five 0x7F bytes was written.
C27_FifthErrorReturned ==
    NoAttemptAcked =>
        /\ pc = "done"
        /\ result.ret /\ ~result.ok
        /\ result.err = ErrOfAnswer(hist[5])
        /\ result.error = Some(ErrOfAnswer(hist[5]))
        /\ result = Failure(ErrOfAnswer(hist[5]))
        /\ port = "closed"
        /\ \A i \in 1..Len(Frames) : Frames[i].v = <<127>>
        /\ Len(Frames) <= 5
        /\ \A i \in DOMAIN log : ~IsRx(log[i])

\* the first attempt was answered with NACK, the fifth with nothing: Timeout
\* was returned, not Nack
C27_NackThenSilence ==
    /\ NoAttemptAcked
    /\ hist[1] = ByteIn(NACK)
    /\ hist[5] = TimedOut
    /\ pc = "done"
    /\ result.err = Err("Timeout")
    /\ Len(Syncs) = 5

----------------------------------------------------------------------------
(* parse_hex_to_image: address arithmetic *)

\* byte i of a record at upper u, offset o belongs at u * 2^16 + o + i
Wanted(u, o, i) == [hi |-> u + ((o + i) \div 65536), lo |-> (o + i) % 65536]

\* C28: for every data record, byte i is stored at ((u << 16) | o) + i with
\* the carry running into the upper half, the sum stays within 32 bits and
\* nothing wraps round to a low address or stops the parse, the records at
\* upper 0xFFFF that run past offset 0xFFFF included.
C28_NoOverflow ==
    calc.fn = "data_record" =>
        /\ ~calc.panicked
        /\ \A k \in 1..Len(calc.keys) :
              /\ calc.keys[k] = Wanted(calc.upper, calc.offset, k - 1)
              /\ calc.keys[k].hi >= calc.upper

\* What the code does guarantee: a record that ends at or below 0xFFFFFFFF
\* has byte i at u * 2^16 + o + i, carry included; where the addresses fit
\* TLC's integers they are data_base(u, o) + i.
C28_CarryBelowTop ==
    (calc.fn = "data_record" /\ (calc.upper < 65535 \/ calc.offset + calc.n <= 65536)) =>
        /\ ~calc.panicked
        /\ \A k \in 1..Len(calc.keys) :
              /\ calc.keys[k] = Wanted(calc.upper, calc.offset, k - 1)
              /\ calc.upper < 32767 =>
                    calc.keys[k].hi * 65536 + calc.keys[k].lo
                        = data_base(calc.upper, calc.offset) + (k - 1)

\* upper 0xFFFF, offset 0xFFFF, two bytes, no overflow checks: the second
\* byte went to address 0
C28_WrappedToZero ==
    /\ calc.fn = "data_record"
    /\ calc.upper = 65535 /\ calc.offset = 65535
    /\ ~calc.overflow_checks
    /\ calc.keys = <<U32(65535, 65535), U32(0, 0)>>

\* the same record in a build with overflow checks: the parse panicked after
\* the first byte
C28_Panicked ==
    /\ calc.fn = "data_record"
    /\ calc.upper = 65535 /\ calc.offset = 65535
    /\ calc.overflow_checks
    /\ calc.panicked
    /\ calc.keys = <<U32(65535, 65535)>>

====
